---- MODULE Spec2Model ----
(***************************************************************************)
(* Chat server of the application: the chat service (chat.service.ts) on   *)
(* top of the User, Chat and Message collections, and the chat routes      *)
(* (chat.controller.ts) on top of the service.                             *)
(*                                                                         *)
(* ObjectIds are naturals: users 11, 12, ..., chats 1, 2, ... in creation  *)
(* order, messages 101, 102, ... in creation order.  The string form of an *)
(* id (a route parameter, the argument of a service) is a record that is   *)
(* either the hex form of an ObjectId, a non-empty string that is no       *)
(* ObjectId, or the empty string.  An error message is the sequence of the *)
(* pieces the code concatenates.                                           *)
(***************************************************************************)
EXTENDS Integers, Sequences, FiniteSets, TLC

\* ------------------------------------------------------------------ bounds
MaxSteps == 3
MaxChatId == 2
MaxMsgId == 2
MaxParts == 2
MaxHookSteps == 5

\* chats, messages: the Chat and Message collections, in creation order
\* last: the request or service call being answered, with the collections
\*       before it; Idle between two requests (the handlers run one at a time)
\* steps: how many requests or calls changed a collection; in the client
\*        specifications, how many handler calls and events have happened
\* hook: the state of the client hook under study (none on the server)
VARIABLES chats, messages, last, steps, hook

vars == <<chats, messages, last, steps, hook>>

\* ------------------------------------------------------- values and helpers
Range(s) == {s[i] : i \in 1..Len(s)}

\* id strings
IdStr(n) == [kind |-> "hex", n |-> n]
JunkStr == [kind |-> "junk", n |-> 0]
EmptyStr == [kind |-> "empty", n |-> 0]

\* JavaScript values a request body field can hold
Undefined == [t |-> "undefined", s |-> "", a |-> <<>>]
Str(s) == [t |-> "string", s |-> s, a |-> <<>>]
Arr(a) == [t |-> "array", s |-> "", a |-> a]

Truthy(x) ==
  CASE x.t = "undefined" -> FALSE
    [] x.t = "null" -> FALSE
    [] x.t = "string" -> x.s # ""
    [] OTHER -> TRUE

IsArray(x) == x.t = "array"

\* ------------------------------------------------------------- collections
UserModel == << [_id |-> 11, username |-> "alice"],
                [_id |-> 12, username |-> "bob"] >>

NoUser == [_id |-> 0, username |-> ""]

\* variant: an unknown username yields a placeholder user instead of null
findOneUser_Placeholder(username) ==
  LET hits == {i \in 1..Len(UserModel) : UserModel[i].username = username}
  IN IF hits = {} THEN [_id |-> 13, username |-> username]
     ELSE UserModel[CHOOSE i \in hits : \A j \in hits : i <= j]

findOneUser(username) ==
  LET hits == {i \in 1..Len(UserModel) : UserModel[i].username = username}
  IN IF hits = {} THEN NoUser
     ELSE UserModel[CHOOSE i \in hits : \A j \in hits : i <= j]

Db(c, m) == [chats |-> c, messages |-> m]

ChatExists(db, n) == n \in 1..Len(db.chats)

MessageId(i) == 100 + i

\* ----------------------------------------------------------------- results
DbError == <<"database error">>
BsonError == <<"input must be a 24 character hex string">>
CastError == <<"Cast to ObjectId failed">>

ErrorRes(msg) ==
  [isError |-> TRUE, error |-> msg, _id |-> 0, participants |-> <<>>, messages |-> <<>>]

ChatRes(c) ==
  [isError |-> FALSE, error |-> <<>>, _id |-> c._id,
   participants |-> c.participants, messages |-> c.messages]

MsgErr(msg) == [isError |-> TRUE, error |-> msg, _id |-> 0]

MsgRes(id) == [isError |-> FALSE, error |-> <<>>, _id |-> id]

Out(res, db) == [res |-> res, db |-> db]

\* stores one message document (message.service.ts)
saveMessage(db, message, ok) ==
  IF ok
  THEN Out(MsgRes(MessageId(Len(db.messages) + 1)),
           Db(db.chats, Append(db.messages, message)))
  ELSE Out(MsgErr(<<"Error when saving a message">>), db)

\* Promise.all(messages.map(saveMessage)): every message is attempted, in order
RECURSIVE saveAllMessages(_, _, _, _)
saveAllMessages(db, msgs, failing, i) ==
  IF i > Len(msgs) THEN [results |-> <<>>, db |-> db]
  ELSE LET one == saveMessage(db, msgs[i], i \notin failing)
           rest == saveAllMessages(one.db, msgs, failing, i + 1)
       IN [results |-> <<one.res>> \o rest.results, db |-> rest.db]

FirstError(results) ==
  LET bad == {i \in 1..Len(results) : results[i].isError}
  IN IF bad = {} THEN 0 ELSE CHOOSE i \in bad : \A j \in bad : i <= j

\* --------------------------------------------------------- chat.service.ts
\* dbOk: no UserModel.findOne of the lookups rejects
\* variant: usernames without a user are skipped
convertUsernamesToObjectIds_SkipMissing(usernames, dbOk) ==
  LET known == SelectSeq(usernames, LAMBDA u : findOneUser(u) # NoUser)
  IN IF ~dbOk /\ Len(usernames) > 0
     THEN [threw |-> TRUE, error |-> DbError, ids |-> <<>>]
     ELSE [threw |-> FALSE, error |-> <<>>,
           ids |-> [i \in 1..Len(known) |-> findOneUser(known[i])._id]]

convertUsernamesToObjectIds(usernames, dbOk) ==
  LET missing == {i \in 1..Len(usernames) : findOneUser(usernames[i]) = NoUser}
  IN IF ~dbOk /\ Len(usernames) > 0
     THEN [threw |-> TRUE, error |-> DbError, ids |-> <<>>]
     ELSE IF missing # {}
     THEN LET i == CHOOSE k \in missing : \A j \in missing : k <= j
          IN [threw |-> TRUE, error |-> <<"User not found: ", usernames[i]>>, ids |-> <<>>]
     ELSE [threw |-> FALSE, error |-> <<>>,
           ids |-> [i \in 1..Len(usernames) |-> findOneUser(usernames[i])._id]]

\* variant: the chat is saved before the users are looked up
saveChat_SaveFirst(db, chatPayload, f) ==
  LET saved == IF Len(chatPayload.messages) > 0
               THEN saveAllMessages(db, chatPayload.messages,
                                    IF f.at = "saveMessage" THEN f.idx ELSE {}, 1)
               ELSE [results |-> <<>>, db |-> db]
      bad == FirstError(saved.results)
      messageIds == [i \in 1..Len(saved.results) |-> saved.results[i]._id]
      conv == convertUsernamesToObjectIds(chatPayload.participants, f.at # "findOne")
      newChat == [_id |-> Len(db.chats) + 1, participants |-> conv.ids, messages |-> messageIds]
  IN IF bad # 0
     THEN Out(ErrorRes(<<"Error when saving chat: ">> \o saved.results[bad].error), saved.db)
     ELSE IF conv.threw
     THEN Out(ErrorRes(<<"Error when saving chat: ">> \o conv.error),
              Db(Append(saved.db.chats, newChat), saved.db.messages))
     ELSE IF f.at = "save"
     THEN Out(ErrorRes(<<"Error when saving chat: ">> \o DbError), saved.db)
     ELSE Out(ChatRes(newChat), Db(Append(saved.db.chats, newChat), saved.db.messages))

saveChat(db, chatPayload, f) ==
  LET saved == IF Len(chatPayload.messages) > 0
               THEN saveAllMessages(db, chatPayload.messages,
                                    IF f.at = "saveMessage" THEN f.idx ELSE {}, 1)
               ELSE [results |-> <<>>, db |-> db]
      bad == FirstError(saved.results)
      messageIds == [i \in 1..Len(saved.results) |-> saved.results[i]._id]
      conv == convertUsernamesToObjectIds(chatPayload.participants, f.at # "findOne")
      newChat == [_id |-> Len(db.chats) + 1, participants |-> conv.ids, messages |-> messageIds]
  IN IF bad # 0
     THEN Out(ErrorRes(<<"Error when saving chat: ">> \o saved.results[bad].error), saved.db)
     ELSE IF conv.threw
     THEN Out(ErrorRes(<<"Error when saving chat: ">> \o conv.error), saved.db)
     ELSE IF f.at = "save"
     THEN Out(ErrorRes(<<"Error when saving chat: ">> \o DbError), saved.db)
     ELSE Out(ChatRes(newChat), Db(Append(saved.db.chats, newChat), saved.db.messages))

\* variant: the document is stored although the call reports an error
createMessage_StoredOnError(db, messageData, f) ==
  IF f.at = "createMessage"
  THEN Out(MsgErr(<<"Error when creating message: ">> \o DbError),
           Db(db.chats, Append(db.messages, messageData)))
  ELSE Out(MsgRes(MessageId(Len(db.messages) + 1)),
           Db(db.chats, Append(db.messages, messageData)))

createMessage(db, messageData, f) ==
  IF f.at = "createMessage"
  THEN Out(MsgErr(<<"Error when creating message: ">> \o DbError), db)
  ELSE Out(MsgRes(MessageId(Len(db.messages) + 1)),
           Db(db.chats, Append(db.messages, messageData)))

\* variant: the id is put in front
pushMessage_Front(c, n, messageId) ==
  [c EXCEPT ![n].messages = <<messageId>> \o @]

pushMessage(c, n, messageId) ==
  [c EXCEPT ![n].messages = Append(@, messageId)]

addMessageToChat(db, chatId, messageId, f) ==
  IF messageId.kind # "hex"
  THEN Out(ErrorRes(<<"Error when adding message to chat: ">> \o BsonError), db)
  ELSE IF chatId.kind # "hex"
  THEN Out(ErrorRes(<<"Error when adding message to chat: ">> \o CastError), db)
  ELSE IF f.at = "addMessageToChat"
  THEN Out(ErrorRes(<<"Error when adding message to chat: ">> \o DbError), db)
  ELSE IF ~ChatExists(db, chatId.n)
  THEN Out(ErrorRes(<<"Chat not found">>), db)
  ELSE LET c == pushMessage(db.chats, chatId.n, messageId.n)
       IN Out(ChatRes(c[chatId.n]), Db(c, db.messages))

getChat(db, chatId, f) ==
  IF chatId.kind # "hex"
  THEN Out(ErrorRes(<<"Error when retrieving chat: ">> \o CastError), db)
  ELSE IF f.at = "getChat"
  THEN Out(ErrorRes(<<"Error when retrieving chat: ">> \o DbError), db)
  ELSE IF ~ChatExists(db, chatId.n)
  THEN Out(ErrorRes(<<"Chat not found">>), db)
  ELSE Out(ChatRes(db.chats[chatId.n]), db)

\* variant: one of the ids is enough ($in)
matchesAll_Any(chat, ids) ==
  /\ ids # <<>>
  /\ \E i \in 1..Len(ids) : ids[i] \in Range(chat.participants)

\* the query { participants: { $all: ids } }; $all of an empty array matches nothing
matchesAll(chat, ids) ==
  /\ ids # <<>>
  /\ \A i \in 1..Len(ids) : ids[i] \in Range(chat.participants)

\* variant: usernames that match no user are dropped from the query
getChatsByParticipants_SkipUnknown(db, p, f) ==
  LET conv == convertUsernamesToObjectIds_SkipMissing(p, f.at # "findOne")
  IN IF conv.threw THEN <<>>
     ELSE IF f.at = "find" THEN <<>>
     ELSE IF f.at = "findNull" THEN <<>>
     ELSE SelectSeq(db.chats, LAMBDA c : matchesAll(c, conv.ids))

getChatsByParticipants(db, p, f) ==
  LET conv == convertUsernamesToObjectIds(p, f.at # "findOne")
  IN IF conv.threw THEN <<>>
     ELSE IF f.at = "find" THEN <<>>
     ELSE IF f.at = "findNull" THEN <<>>
     ELSE SelectSeq(db.chats, LAMBDA c : matchesAll(c, conv.ids))

pushParticipant(c, n, userId) ==
  [c EXCEPT ![n].participants = Append(@, userId)]

\* variant: the filter { participants: { $ne: user._id } } is missing
addParticipantToChat_NoNeFilter(db, chatId, username, f) ==
  LET user == findOneUser(username)
  IN IF f.at = "findOne"
     THEN Out(ErrorRes(<<"Error when adding participant to chat: ">> \o DbError), db)
     ELSE IF user = NoUser
     THEN Out(ErrorRes(<<"User not found">>), db)
     ELSE IF chatId.kind # "hex"
     THEN Out(ErrorRes(<<"Error when adding participant to chat: ">> \o BsonError), db)
     ELSE IF f.at = "addParticipantToChat"
     THEN Out(ErrorRes(<<"Error when adding participant to chat: ">> \o DbError), db)
     ELSE IF ~ChatExists(db, chatId.n)
     THEN Out(ErrorRes(<<"Chat not found or user already a participant">>), db)
     ELSE LET c == pushParticipant(db.chats, chatId.n, user._id)
          IN Out(ChatRes(c[chatId.n]), Db(c, db.messages))

addParticipantToChat(db, chatId, username, f) ==
  LET user == findOneUser(username)
  IN IF f.at = "findOne"
     THEN Out(ErrorRes(<<"Error when adding participant to chat: ">> \o DbError), db)
     ELSE IF user = NoUser
     THEN Out(ErrorRes(<<"User not found">>), db)
     ELSE IF chatId.kind # "hex"
     THEN Out(ErrorRes(<<"Error when adding participant to chat: ">> \o BsonError), db)
     ELSE IF f.at = "addParticipantToChat"
     THEN Out(ErrorRes(<<"Error when adding participant to chat: ">> \o DbError), db)
     ELSE IF ~ChatExists(db, chatId.n) \/ user._id \in Range(db.chats[chatId.n].participants)
     THEN Out(ErrorRes(<<"Chat not found or user already a participant">>), db)
     ELSE LET c == pushParticipant(db.chats, chatId.n, user._id)
          IN Out(ChatRes(c[chatId.n]), Db(c, db.messages))

\* ------------------------------------------------------- database.util.ts
\* populateDocument(id, 'chat'): the chat with its message ids replaced by the
\* stored message documents, or an error object
populateDocument(db, id, ok) ==
  IF ~ok \/ id.kind # "hex" \/ ~ChatExists(db, id.n)
  THEN [isError |-> TRUE,
        error |-> <<"Error when fetching and populating a document: ",
                    "Failed to fetch and populate chat">>,
        _id |-> 0, participants |-> <<>>, messages |-> <<>>]
  ELSE LET c == db.chats[id.n]
           known == SelectSeq(c.messages, LAMBDA m : m - 100 \in 1..Len(db.messages))
       IN [isError |-> FALSE, error |-> <<>>, _id |-> c._id,
           participants |-> c.participants,
           messages |-> [i \in 1..Len(known) |-> db.messages[known[i] - 100]]]

\* ------------------------------------------------------ chat.controller.ts
\* one step of a route: a call of a service, an emitted event, the response
Call(fn, arg, res) ==
  [fn |-> fn, arg |-> arg, failed |-> res.isError, error |-> res.error, ret |-> res]

Emit(room, type, chat) ==
  [fn |-> "emit", arg |-> [event |-> "chatUpdate", room |-> room, type |-> type, chat |-> chat],
   failed |-> FALSE, error |-> <<>>, ret |-> <<>>]

Send(status) ==
  [fn |-> "send", arg |-> status, failed |-> FALSE, error |-> <<>>, ret |-> <<>>]

Broadcast == [kind |-> "all", n |-> 0]

NoBody == <<>>

\* what one request did: its steps in order (trace), of these the service
\* calls and the emitted events, its response, and the collections it leaves
Reply(trace, text, body, db) ==
  LET emits == SelectSeq(trace, LAMBDA e : e.fn = "emit")
  IN [trace |-> trace,
      calls |-> SelectSeq(trace, LAMBDA e : e.fn \notin {"emit", "send"}),
      emitted |-> [i \in 1..Len(emits) |-> emits[i].arg],
      status |-> trace[Len(trace)].arg,
      text |-> text, body |-> body, db |-> db]

\* variant: the empty array is let through
isCreateChatRequestValid_NoEmptyCheck(body) ==
  IF ~Truthy(body.participants) THEN FALSE
  ELSE IF ~IsArray(body.participants) THEN FALSE
  ELSE TRUE

isCreateChatRequestValid(body) ==
  IF ~Truthy(body.participants) THEN FALSE
  ELSE IF ~IsArray(body.participants) THEN FALSE
  ELSE IF Len(body.participants.a) = 0 THEN FALSE
  ELSE TRUE

\* variant: msgFrom is not checked
isAddMessageRequestValid_NoSenderCheck(chatId, body) ==
  IF chatId.kind = "empty" THEN FALSE
  ELSE IF ~Truthy(body.msg) THEN FALSE
  ELSE TRUE

isAddMessageRequestValid(chatId, body) ==
  IF chatId.kind = "empty" THEN FALSE
  ELSE IF ~Truthy(body.msg) THEN FALSE
  ELSE IF ~Truthy(body.msgFrom) THEN FALSE
  ELSE TRUE

\* variant: username is not checked
isAddParticipantRequestValid_NoUsernameCheck(chatId, body) ==
  IF chatId.kind = "empty" THEN FALSE
  ELSE TRUE

isAddParticipantRequestValid(chatId, body) ==
  IF chatId.kind = "empty" THEN FALSE
  ELSE IF ~Truthy(body.username) THEN FALSE
  ELSE TRUE

formatMessages(msgs) ==
  IF Truthy(msgs)
  THEN [i \in 1..Len(msgs.a) |->
          [msg |-> msgs.a[i].msg, msgFrom |-> msgs.a[i].msgFrom, type |-> "direct"]]
  ELSE <<>>

createChatRoute(db, body, f) ==
  IF ~isCreateChatRequestValid(body)
  THEN Reply(<<Send(400)>>, <<"Invalid chat creation request">>, NoBody, db)
  ELSE
    LET payload == [participants |-> body.participants.a,
                    messages |-> formatMessages(body.messages)]
        savedChat == saveChat(db, payload, f)
        c1 == <<Call("saveChat", payload, savedChat.res)>>
        populatedChat == populateDocument(savedChat.db, IdStr(savedChat.res._id),
                                          f.at # "populateDocument")
        c2 == c1 \o <<Call("populateDocument", IdStr(savedChat.res._id), populatedChat)>>
    IN IF savedChat.res.isError
       THEN Reply(c1 \o <<Send(500)>>, <<"Error creating a chat: ">> \o savedChat.res.error,
                  NoBody, savedChat.db)
       ELSE IF populatedChat.isError
       THEN Reply(c2 \o <<Send(500)>>, <<"Error creating a chat: ">> \o populatedChat.error,
                  NoBody, savedChat.db)
       ELSE Reply(c2 \o <<Emit(Broadcast, "created", populatedChat), Send(200)>>, <<>>,
                  populatedChat, savedChat.db)

\* variant: the result of createMessage is not checked before the next step
addMessageToChatRoute_NoCreateCheck(db, chatId, body, f) ==
  IF ~isAddMessageRequestValid(chatId, body)
  THEN Reply(<<Send(400)>>, <<"Invalid message request">>, NoBody, db)
  ELSE
    LET messageData == [msg |-> body.msg.s, msgFrom |-> body.msgFrom.s, type |-> "direct"]
        createdMessage == createMessage(db, messageData, f)
        c1 == <<Call("createMessage", messageData, createdMessage.res)>>
        messageId == IF createdMessage.res._id = 0 THEN EmptyStr
                     ELSE IdStr(createdMessage.res._id)
        chatWithNewMessage == addMessageToChat(createdMessage.db, chatId, messageId, f)
        c2 == c1 \o <<Call("addMessageToChat", <<chatId, messageId>>, chatWithNewMessage.res)>>
        enrichedChat == populateDocument(chatWithNewMessage.db, chatId,
                                         f.at # "populateDocument")
        c3 == c2 \o <<Call("populateDocument", chatId, enrichedChat)>>
    IN IF chatWithNewMessage.res.isError
       THEN Reply(c2 \o <<Send(500)>>,
                  <<"Error adding message to chat: ">> \o chatWithNewMessage.res.error,
                  NoBody, chatWithNewMessage.db)
       ELSE IF enrichedChat.isError
       THEN Reply(c3 \o <<Send(500)>>,
                  <<"Error adding message to chat: ">> \o enrichedChat.error,
                  NoBody, chatWithNewMessage.db)
       ELSE Reply(c3 \o <<Emit(chatId, "newMessage", enrichedChat), Send(200)>>, <<>>,
                  enrichedChat, chatWithNewMessage.db)

addMessageToChatRoute(db, chatId, body, f) ==
  IF ~isAddMessageRequestValid(chatId, body)
  THEN Reply(<<Send(400)>>, <<"Invalid message request">>, NoBody, db)
  ELSE
    LET messageData == [msg |-> body.msg.s, msgFrom |-> body.msgFrom.s, type |-> "direct"]
        createdMessage == createMessage(db, messageData, f)
        c1 == <<Call("createMessage", messageData, createdMessage.res)>>
        messageId == IF createdMessage.res._id = 0 THEN EmptyStr
                     ELSE IdStr(createdMessage.res._id)
        chatWithNewMessage == addMessageToChat(createdMessage.db, chatId, messageId, f)
        c2 == c1 \o <<Call("addMessageToChat", <<chatId, messageId>>, chatWithNewMessage.res)>>
        enrichedChat == populateDocument(chatWithNewMessage.db, chatId,
                                         f.at # "populateDocument")
        c3 == c2 \o <<Call("populateDocument", chatId, enrichedChat)>>
    IN IF createdMessage.res.isError
       THEN Reply(c1 \o <<Send(500)>>,
                  <<"Error adding message to chat: ">> \o createdMessage.res.error,
                  NoBody, createdMessage.db)
       ELSE IF chatWithNewMessage.res.isError
       THEN Reply(c2 \o <<Send(500)>>,
                  <<"Error adding message to chat: ">> \o chatWithNewMessage.res.error,
                  NoBody, chatWithNewMessage.db)
       ELSE IF enrichedChat.isError
       THEN Reply(c3 \o <<Send(500)>>,
                  <<"Error adding message to chat: ">> \o enrichedChat.error,
                  NoBody, chatWithNewMessage.db)
       ELSE Reply(c3 \o <<Emit(chatId, "newMessage", enrichedChat), Send(200)>>, <<>>,
                  enrichedChat, chatWithNewMessage.db)

getChatRoute(db, chatId, f) ==
  LET foundChat == getChat(db, chatId, f)
      c1 == <<Call("getChat", chatId, foundChat.res)>>
      populatedChat == populateDocument(db, IdStr(foundChat.res._id),
                                        f.at # "populateDocument")
      c2 == c1 \o <<Call("populateDocument", IdStr(foundChat.res._id), populatedChat)>>
  IN IF foundChat.res.isError
     THEN Reply(c1 \o <<Send(500)>>, <<"Error retrieving chat: ">> \o foundChat.res.error,
                NoBody, db)
     ELSE IF populatedChat.isError
     THEN Reply(c2 \o <<Send(500)>>, <<"Error retrieving chat: ">> \o populatedChat.error,
                NoBody, db)
     ELSE Reply(c2 \o <<Send(200)>>, <<>>, populatedChat, db)

\* variant: the chats that failed to populate are dropped from the answer
getChatsByUserRoute_Partial(db, username, f) ==
  LET found == getChatsByParticipants(db, <<username>>, f)
      c1 == <<[fn |-> "getChatsByParticipants", arg |-> <<username>>,
               failed |-> FALSE, error |-> <<>>, ret |-> found]>>
      populatedChats ==
        [i \in 1..Len(found) |->
           populateDocument(db, IdStr(found[i]._id),
                            ~(f.at = "populateDocument" /\ i \in f.idx))]
      c2 == c1 \o [i \in 1..Len(found) |->
                     Call("populateDocument", IdStr(found[i]._id), populatedChats[i])]
  IN Reply(c2 \o <<Send(200)>>, <<>>,
           SelectSeq(populatedChats, LAMBDA c : ~c.isError), db)

getChatsByUserRoute(db, username, f) ==
  LET found == getChatsByParticipants(db, <<username>>, f)
      c1 == <<[fn |-> "getChatsByParticipants", arg |-> <<username>>,
               failed |-> FALSE, error |-> <<>>, ret |-> found]>>
      populatedChats ==
        [i \in 1..Len(found) |->
           populateDocument(db, IdStr(found[i]._id),
                            ~(f.at = "populateDocument" /\ i \in f.idx))]
      c2 == c1 \o [i \in 1..Len(found) |->
                     Call("populateDocument", IdStr(found[i]._id), populatedChats[i])]
  IN IF \E i \in 1..Len(populatedChats) : populatedChats[i].isError
     THEN Reply(c2 \o <<Send(500)>>,
                <<"Error retrieving chat: ", "Failed populating all retrieved chats">>,
                NoBody, db)
     ELSE Reply(c2 \o <<Send(200)>>, <<>>, populatedChats, db)

\* variant: the event is emitted before the populated chat is checked
addParticipantToChatRoute_EmitEarly(db, chatId, body, f) ==
  IF ~isAddParticipantRequestValid(chatId, body)
  THEN Reply(<<Send(400)>>, <<"Invalid participant request">>, NoBody, db)
  ELSE
    LET updatedChat == addParticipantToChat(db, chatId, body.username.s, f)
        c1 == <<Call("addParticipantToChat", <<chatId, body.username>>, updatedChat.res)>>
        populatedChat == populateDocument(updatedChat.db, IdStr(updatedChat.res._id),
                                          f.at # "populateDocument")
        c2 == c1 \o <<Call("populateDocument", IdStr(updatedChat.res._id), populatedChat)>>
    IN IF updatedChat.res.isError
       THEN Reply(c1 \o <<Send(500)>>,
                  <<"Error adding participant to chat: ">> \o updatedChat.res.error,
                  NoBody, updatedChat.db)
       ELSE IF populatedChat.isError
       THEN Reply(c2 \o <<Emit(Broadcast, "newParticipant", populatedChat), Send(500)>>,
                  <<"Error adding participant to chat: ">> \o populatedChat.error,
                  NoBody, updatedChat.db)
       ELSE Reply(c2 \o <<Emit(Broadcast, "newParticipant", populatedChat), Send(200)>>,
                  <<>>, populatedChat, updatedChat.db)

addParticipantToChatRoute(db, chatId, body, f) ==
  IF ~isAddParticipantRequestValid(chatId, body)
  THEN Reply(<<Send(400)>>, <<"Invalid participant request">>, NoBody, db)
  ELSE
    LET updatedChat == addParticipantToChat(db, chatId, body.username.s, f)
        c1 == <<Call("addParticipantToChat", <<chatId, body.username>>, updatedChat.res)>>
        populatedChat == populateDocument(updatedChat.db, IdStr(updatedChat.res._id),
                                          f.at # "populateDocument")
        c2 == c1 \o <<Call("populateDocument", IdStr(updatedChat.res._id), populatedChat)>>
    IN IF updatedChat.res.isError
       THEN Reply(c1 \o <<Send(500)>>,
                  <<"Error adding participant to chat: ">> \o updatedChat.res.error,
                  NoBody, updatedChat.db)
       ELSE IF populatedChat.isError
       THEN Reply(c2 \o <<Send(500)>>,
                  <<"Error adding participant to chat: ">> \o populatedChat.error,
                  NoBody, updatedChat.db)
       ELSE Reply(c2 \o <<Emit(Broadcast, "newParticipant", populatedChat), Send(200)>>,
                  <<>>, populatedChat, updatedChat.db)

\* ------------------------------------------------------------------ inputs
Usernames == {"alice", "bob", "ghost"}

MsgPayloads == {[msg |-> "hi", msgFrom |-> "alice"]}

ChatIdParams == {IdStr(n) : n \in 1..MaxChatId} \cup {JunkStr}

MessageIdArgs == {IdStr(MessageId(i)) : i \in 1..MaxMsgId} \cup {JunkStr, EmptyStr}

\* the participants arrays tried, up to MaxParts names long
ParticipantArrays ==
  {a \in { <<>>, <<"alice">>, <<"bob">>, <<"ghost">>,
           <<"alice", "bob">>, <<"alice", "ghost">>, <<"ghost", "nobody">>,
           <<"alice", "bob", "ghost">>, <<"bob", "alice", "bob">> } : Len(a) <= MaxParts}

ParticipantsValues == {Undefined, Str("alice")} \cup {Arr(a) : a \in ParticipantArrays}

\* the messages value tried: missing, no message, or one initial message
MessagesValues == {Undefined, Arr(<<>>)} \cup {Arr(<<m>>) : m \in MsgPayloads}

\* bodies of an addMessage request: complete, or with msg or msgFrom missing or empty
AddMessageBodies ==
  { [msg |-> Str("hi"), msgFrom |-> Str("alice")],
    [msg |-> Undefined, msgFrom |-> Str("alice")],
    [msg |-> Str(""), msgFrom |-> Str("alice")],
    [msg |-> Str("hi"), msgFrom |-> Undefined],
    [msg |-> Str("hi"), msgFrom |-> Str("")],
    [msg |-> Undefined, msgFrom |-> Undefined] }

UsernameValues == {Undefined, Str("")} \cup {Str(u) : u \in Usernames}

FaultsAt(points) == {[at |-> at, idx |-> {}] : at \in points}

IndexFaults(at, n) == {[at |-> at, idx |-> S] : S \in (SUBSET (1..n)) \ {{}}}

\* ----------------------------------------------------------------- actions
Idle == [op |-> "none", in |-> <<>>, out |-> <<>>, pre |-> Db(<<>>, <<>>)]

Init ==
  /\ chats = <<>>
  /\ messages = <<>>
  /\ last = Idle
  /\ steps = 0
  /\ hook = [name |-> "none"]

Record(op, in, out) ==
  /\ last = Idle
  /\ steps < MaxSteps
  /\ steps' = IF out.db = Db(chats, messages) THEN steps ELSE steps + 1
  /\ last' = [op |-> op, in |-> in, out |-> out, pre |-> Db(chats, messages)]
  /\ chats' = out.db.chats
  /\ messages' = out.db.messages
  /\ UNCHANGED hook

\* POST /chat/createChat
PostCreateChat ==
  \E p \in ParticipantsValues, m \in MessagesValues :
    \E f \in FaultsAt({"none", "findOne", "save", "populateDocument"})
             \cup IndexFaults("saveMessage", Len(m.a)) :
      LET body == [participants |-> p, messages |-> m]
      IN Record("createChatRoute", [body |-> body, f |-> f],
                createChatRoute(Db(chats, messages), body, f))

\* POST /chat/:chatId/addMessage
PostAddMessage ==
  \E chatId \in ChatIdParams, body \in AddMessageBodies :
    \E f \in FaultsAt({"none", "createMessage", "addMessageToChat", "populateDocument"}) :
      Record("addMessageToChatRoute", [chatId |-> chatId, body |-> body, f |-> f],
             addMessageToChatRoute(Db(chats, messages), chatId, body, f))

\* GET /chat/:chatId
GetChatById ==
  \E chatId \in ChatIdParams :
    \E f \in FaultsAt({"none", "getChat", "populateDocument"}) :
      Record("getChatRoute", [chatId |-> chatId, f |-> f],
             getChatRoute(Db(chats, messages), chatId, f))

\* GET /chat/getChatsByUser/:username
GetChatsByUser ==
  \E username \in Usernames :
    \E f \in FaultsAt({"none", "findOne", "find", "findNull"})
             \cup IndexFaults("populateDocument", Len(chats)) :
      Record("getChatsByUserRoute", [username |-> username, f |-> f],
             getChatsByUserRoute(Db(chats, messages), username, f))

\* POST /chat/:chatId/addParticipant
PostAddParticipant ==
  \E chatId \in ChatIdParams, username \in UsernameValues :
    \E f \in FaultsAt({"none", "findOne", "addParticipantToChat", "populateDocument"}) :
      LET body == [username |-> username]
      IN Record("addParticipantToChatRoute", [chatId |-> chatId, body |-> body, f |-> f],
                addParticipantToChatRoute(Db(chats, messages), chatId, body, f))

\* the response has been sent: the server takes the next request
Complete ==
  /\ last # Idle
  /\ last' = Idle
  /\ UNCHANGED <<chats, messages, steps, hook>>

Next ==
  \/ Complete
  \/ PostCreateChat
  \/ PostAddMessage
  \/ GetChatById
  \/ GetChatsByUser
  \/ PostAddParticipant

Spec == Init /\ [][Next]_vars

\* --------------------------------------- the service functions, called directly
StoredMessages == {[msg |-> m.msg, msgFrom |-> m.msgFrom, type |-> "direct"] : m \in MsgPayloads}

CallSaveChat ==
  \E p \in ParticipantArrays, m \in {<<>>} \cup {<<d>> : d \in StoredMessages} :
    \E f \in FaultsAt({"none", "findOne", "save"}) \cup IndexFaults("saveMessage", Len(m)) :
      LET chatPayload == [participants |-> p, messages |-> m]
      IN Record("saveChat", [chatPayload |-> chatPayload, f |-> f],
                saveChat(Db(chats, messages), chatPayload, f))

CallCreateMessage ==
  \E m \in StoredMessages, f \in FaultsAt({"none", "createMessage"}) :
    Record("createMessage", [messageData |-> m, f |-> f],
           createMessage(Db(chats, messages), m, f))

CallAddMessageToChat ==
  \E chatId \in ChatIdParams, messageId \in MessageIdArgs :
    \E f \in FaultsAt({"none", "addMessageToChat"}) :
      Record("addMessageToChat", [chatId |-> chatId, messageId |-> messageId, f |-> f],
             addMessageToChat(Db(chats, messages), chatId, messageId, f))

CallGetChat ==
  \E chatId \in ChatIdParams, f \in FaultsAt({"none", "getChat"}) :
    Record("getChat", [chatId |-> chatId, f |-> f],
           getChat(Db(chats, messages), chatId, f))

CallGetChatsByParticipants ==
  \E p \in ParticipantArrays :
    \E f \in FaultsAt({"none", "findOne", "find", "findNull"}) :
      Record("getChatsByParticipants", [p |-> p, f |-> f],
             Out(getChatsByParticipants(Db(chats, messages), p, f), Db(chats, messages)))

CallAddParticipantToChat ==
  \E chatId \in ChatIdParams, username \in Usernames :
    \E f \in FaultsAt({"none", "findOne", "addParticipantToChat"}) :
      Record("addParticipantToChat", [chatId |-> chatId, username |-> username, f |-> f],
             addParticipantToChat(Db(chats, messages), chatId, username, f))

NextService ==
  \/ Complete
  \/ CallSaveChat
  \/ CallCreateMessage
  \/ CallAddMessageToChat
  \/ CallGetChat
  \/ CallGetChatsByParticipants
  \/ CallAddParticipantToChat

SpecService == Init /\ [][NextService]_vars

\* ------------------------------------------------ hooks/useDirectMessage.ts
\* A chat as the client holds it: its _id and how many messages it carries.
\* The state cells of the hook are kept after the unmount, so that a handler
\* left on the socket would show.  A state update and the render that follows
\* it are one step: selectedChatRef.current is selectedChat after every step.
ClientChat(id, n) == [_id |-> id, msgs |-> n]

\* selectedChat = null
NoChat == [_id |-> 0, msgs |-> 0]

\* the chats the server can send: chat 1 or 2, with no or one message
ServerChats == {ClientChat(id, n) : id \in {1, 2}, n \in {0, 1}}

\* socket.emit(ev, id) on the client socket
SocketEmit(ev, id) == [ev |-> ev, id |-> id]

\* what a handler leaves behind: the hook's state and the events it emitted
Did(h, emits) == [h |-> h, emits |-> emits]

useDirectMessage ==
  [name |-> "useDirectMessage", phase |-> "initial",
   showCreatePanel |-> FALSE, chatToCreate |-> "", selectedChat |-> NoChat,
   chats |-> <<>>, error |-> <<>>, selectedChatRef |-> NoChat,
   listeners |-> 0, pending |-> <<>>, mostRecentSelect |-> 0]

\* listeners, pending and mostRecentSelect are not state of the hook: the
\* handlers registered on the socket, the requests awaiting their response,
\* and the id given to the most recent call of handleChatSelect that sent one

\* the body of the hook runs on every render
renderDirectMessage(h) == [h EXCEPT !.selectedChatRef = h.selectedChat]

handleJoinChat(chatID) == SocketEmit("joinChat", chatID)

\* handleChatSelect up to its await: chatID 0 stands for undefined
handleChatSelect(h, chatID) ==
  IF chatID = 0 THEN Did(h, <<>>)
  ELSE Did([h EXCEPT !.pending = Append(@, [fn |-> "getChatById", arg |-> chatID])], <<>>)

\* variant: a response is dropped when a chat is selected already
handleChatSelectResume_KeepSelected(h, chatID, ok, chat) ==
  IF ok
  THEN (IF h.selectedChat = NoChat
        THEN Did([h EXCEPT !.selectedChat = chat], <<handleJoinChat(chatID)>>)
        ELSE Did(h, <<>>))
  ELSE Did([h EXCEPT !.error = <<"Error fetching chat: ", "request failed">>], <<>>)

\* handleChatSelect after its await: the response is a chat, or the request failed
handleChatSelectResume(h, chatID, ok, chat) ==
  IF ok
  THEN Did([h EXCEPT !.selectedChat = chat], <<handleJoinChat(chatID)>>)
  ELSE Did([h EXCEPT !.error = <<"Error fetching chat: ", "request failed">>], <<>>)

handleUserSelect(h, username) == Did([h EXCEPT !.chatToCreate = username], <<>>)

handleCreateChat(h) ==
  IF h.chatToCreate = "" THEN Did(h, <<>>)
  ELSE Did([h EXCEPT !.pending = Append(@, [fn |-> "createChat", arg |-> 0])], <<>>)

handleCreateChatResume(h, ok, newChat) ==
  IF ok
  THEN Did([h EXCEPT !.selectedChat = newChat, !.showCreatePanel = FALSE, !.chatToCreate = ""],
           <<handleJoinChat(newChat._id)>>)
  ELSE Did([h EXCEPT !.error = <<"Error creating chat: ", "request failed">>], <<>>)

\* variant: a created chat is appended whether or not it is in the list
handleChatUpdate_NoDedup(h, chatUpdate) ==
  LET id == chatUpdate.chat._id
  IN CASE chatUpdate.type = "created" ->
            [h EXCEPT !.chats = Append(@, chatUpdate.chat)]
       [] chatUpdate.type = "newMessage" ->
            LET sel == IF h.selectedChatRef # NoChat /\ h.selectedChatRef._id = id
                       THEN chatUpdate.chat ELSE h.selectedChat
            IN [h EXCEPT !.selectedChat = sel,
                         !.chats = [i \in 1..Len(h.chats) |->
                                      IF h.chats[i]._id = id THEN chatUpdate.chat ELSE h.chats[i]]]
       [] OTHER -> h

handleChatUpdate(h, chatUpdate) ==
  LET id == chatUpdate.chat._id
  IN CASE chatUpdate.type = "created" ->
            IF \E i \in 1..Len(h.chats) : h.chats[i]._id = id
            THEN h
            ELSE [h EXCEPT !.chats = Append(@, chatUpdate.chat)]
       [] chatUpdate.type = "newMessage" ->
            LET sel == IF h.selectedChatRef # NoChat /\ h.selectedChatRef._id = id
                       THEN chatUpdate.chat ELSE h.selectedChat
            IN [h EXCEPT !.selectedChat = sel,
                         !.chats = [i \in 1..Len(h.chats) |->
                                      IF h.chats[i]._id = id THEN chatUpdate.chat ELSE h.chats[i]]]
       [] OTHER -> h

\* the socket calls every listener registered for 'chatUpdate'
RECURSIVE deliverChatUpdate(_, _, _)
deliverChatUpdate(h, chatUpdate, n) ==
  IF n = 0 THEN h
  ELSE deliverChatUpdate(renderDirectMessage(handleChatUpdate(h, chatUpdate)), chatUpdate, n - 1)

\* the effect: fetchChats is started and the listener registered
mountDirectMessage(h) ==
  Did([h EXCEPT !.phase = "mounted",
                !.pending = Append(@, [fn |-> "getChatsByUser", arg |-> 0]),
                !.listeners = @ + 1], <<>>)

fetchChatsResume(h, ok, userChats) ==
  IF ok THEN Did([h EXCEPT !.chats = userChats], <<>>)
  ELSE Did([h EXCEPT !.error = <<"Error fetching chats: ", "request failed">>], <<>>)

\* variant: the listener is not removed
cleanupDirectMessage_NoOff(h) ==
  Did([h EXCEPT !.phase = "cleaned"],
      IF h.selectedChatRef # NoChat /\ h.selectedChatRef._id # 0
      THEN <<SocketEmit("leaveChat", h.selectedChatRef._id)>> ELSE <<>>)

\* the cleanup of the effect
cleanupDirectMessage(h) ==
  Did([h EXCEPT !.phase = "cleaned",
                !.listeners = IF @ > 0 THEN @ - 1 ELSE 0],
      IF h.selectedChatRef # NoChat /\ h.selectedChatRef._id # 0
      THEN <<SocketEmit("leaveChat", h.selectedChatRef._id)>> ELSE <<>>)

RemoveAt(s, i) == [j \in 1..(Len(s) - 1) |-> IF j < i THEN s[j] ELSE s[j + 1]]

\* a hook before its first render
InitHook(S) ==
  /\ chats = <<>>
  /\ messages = <<>>
  /\ last = Idle
  /\ steps = 0
  /\ hook \in S

\* one step of a hook: a handler call, a response or an event
HookStep(op, in, did) ==
  /\ steps < MaxHookSteps
  /\ steps' = steps + 1
  /\ hook' = IF did.h.name = "useDirectMessage" THEN renderDirectMessage(did.h) ELSE did.h
  /\ last' = [op |-> op, in |-> in, out |-> [emits |-> did.emits], pre |-> hook]
  /\ UNCHANGED <<chats, messages>>

DMMount ==
  /\ hook.phase = "initial"
  /\ HookStep("mount", <<>>, mountDirectMessage(hook))

DMUnmount ==
  /\ hook.phase = "mounted"
  /\ HookStep("cleanup", <<>>, cleanupDirectMessage(hook))

DMChatSelect ==
  /\ hook.phase = "mounted"
  /\ Len(hook.pending) < 3
  /\ \E chatID \in {0, 1, 2} :
       LET did == handleChatSelect(hook, chatID)
       IN HookStep("handleChatSelect", [chatID |-> chatID],
                   Did([did.h EXCEPT !.mostRecentSelect = IF chatID = 0 THEN @ ELSE chatID],
                       did.emits))

DMUserSelect ==
  /\ hook.phase = "mounted"
  /\ \E u \in {"bob"} :
       HookStep("handleUserSelect", [username |-> u],
                handleUserSelect(hook, u))

DMCreateChat ==
  /\ hook.phase = "mounted"
  /\ Len(hook.pending) < 2
  /\ HookStep("handleCreateChat", <<>>, handleCreateChat(hook))

\* a pending request is answered; the answers come in any order
DMResponse ==
  /\ hook.phase # "initial"
  /\ \E i \in 1..Len(hook.pending), ok \in BOOLEAN :
       LET r == hook.pending[i]
           h == [hook EXCEPT !.pending = RemoveAt(@, i)]
       IN CASE r.fn = "getChatsByUser" ->
                 \E l \in IF ok THEN {<<>>} \cup {<<c>> : c \in ServerChats}
                              \cup {<<ClientChat(1, n), ClientChat(2, 0)>> : n \in {0, 1}}
                        ELSE {<<>>} :
                   HookStep("fetchChats", [ok |-> ok, res |-> l],
                            fetchChatsResume(h, ok, l))
            [] r.fn = "getChatById" ->
                 \E n \in IF ok THEN {0, 1} ELSE {0} :
                   HookStep("getChatById", [chatID |-> r.arg, ok |-> ok, n |-> n],
                            handleChatSelectResume(h, r.arg, ok, ClientChat(r.arg, n)))
            [] r.fn = "createChat" ->
                 \E id \in IF ok THEN {1, 2} ELSE {1} :
                   HookStep("createChat", [ok |-> ok, id |-> id],
                            handleCreateChatResume(h, ok, ClientChat(id, 0)))

\* the server emits 'chatUpdate'
DMChatUpdate ==
  /\ hook.phase # "initial"
  /\ \E t \in {"created", "newMessage", "other"}, c \in ServerChats :
       LET u == [type |-> t, chat |-> c] IN
       HookStep("chatUpdate", u,
                Did(deliverChatUpdate(hook, u, hook.listeners), <<>>))

NextDirectMessage ==
  \/ DMMount
  \/ DMUnmount
  \/ DMChatSelect
  \/ DMUserSelect
  \/ DMCreateChat
  \/ DMResponse
  \/ DMChatUpdate

SpecDirectMessage == InitHook({useDirectMessage}) /\ [][NextDirectMessage]_vars

\* ------------------------------------------------ hooks/useNimGamePage.ts
\* A string is the sequence of its characters.
DigitValue(c) ==
  CASE c = "0" -> 0 [] c = "1" -> 1 [] c = "2" -> 2 [] c = "3" -> 3 [] c = "4" -> 4
    [] c = "5" -> 5 [] c = "6" -> 6 [] c = "7" -> 7 [] c = "8" -> 8 [] c = "9" -> 9
    [] OTHER -> -1

\* the value of the longest prefix of decimal digits of s from position i on
RECURSIVE parseDigits(_, _, _, _)
parseDigits(s, i, acc, seen) ==
  IF i > Len(s) \/ DigitValue(s[i]) < 0
  THEN IF seen THEN [nan |-> FALSE, n |-> acc] ELSE [nan |-> TRUE, n |-> 0]
  ELSE parseDigits(s, i + 1, 10 * acc + DigitValue(s[i]), TRUE)

\* parseInt(value, 10): leading blanks, an optional sign, then digits
parseInt(s) ==
  LET blanks == {k \in 1..Len(s) : \A j \in 1..k : s[j] = " "}
      i == Cardinality(blanks) + 1
      signed == i <= Len(s) /\ s[i] \in {"+", "-"}
      r == parseDigits(s, IF signed THEN i + 1 ELSE i, 0, FALSE)
  IN IF r.nan THEN [nan |-> TRUE, n |-> 0]
     ELSE IF signed /\ s[i] = "-" THEN [nan |-> FALSE, n |-> 0 - r.n] ELSE r

\* move: number | null
NullMove == [isNull |-> TRUE, n |-> 0]

\* Number(move)
NumberOf(move) == IF move.isNull THEN 0 ELSE move.n

\* the game states the page is given: moves is the number of moves made so
\* far, "" stands for a player that has not joined (undefined)
NimGameStates ==
  {[gameID |-> "g1", status |-> st, moves |-> n, player1 |-> p1, player2 |-> p2] :
     st \in {"WAITING_TO_START", "IN_PROGRESS", "OVER"}, n \in {0, 1},
     p1 \in {"alice", "bob"}, p2 \in {"", "alice", "bob"}}

useNimGamePage(gameState) ==
  [name |-> "useNimGamePage", username |-> "alice", gameState |-> gameState,
   move |-> NullMove, emitted |-> <<>>]

handleMakeMove(h) ==
  LET nimMove == [playerID |-> h.username, gameID |-> h.gameState.gameID,
                  move |-> [numObjects |-> NumberOf(h.move)]]
      ev == [ev |-> "makeMove", gameID |-> h.gameState.gameID, move |-> nimMove]
  IN Did([h EXCEPT !.emitted = Append(@, ev)], <<ev>>)

handleInputChange(h, value) ==
  LET numValue == parseInt(value)
  IN IF ~numValue.nan /\ numValue.n >= 1 /\ numValue.n <= 3
     THEN Did([h EXCEPT !.move = [isNull |-> FALSE, n |-> numValue.n]], <<>>)
     ELSE Did(h, <<>>)

\* variant: the button is always compared with player1
NimGamePage_Player1Only(h) ==
  LET state == h.gameState
  IN [currentPlayerToMove |->
        IF state.moves % 2 = 0
        THEN (IF state.player1 # "" THEN state.player1 ELSE "Waiting...")
        ELSE (IF state.player2 # "" THEN state.player2 ELSE "Waiting..."),
      moveControls |-> state.status = "IN_PROGRESS",
      submitDisabled |->
        \/ state.status # "IN_PROGRESS"
        \/ h.move.isNull \/ h.move.n = 0
        \/ state.player1 # h.username]

\* what NimGamePage renders: the player shown as the one to move, whether the
\* move controls are rendered, and whether the Submit Move button is
\* disabled (a button that is not rendered counts as disabled)
NimGamePage(h) ==
  LET state == h.gameState
  IN [currentPlayerToMove |->
        IF state.moves % 2 = 0
        THEN (IF state.player1 # "" THEN state.player1 ELSE "Waiting...")
        ELSE (IF state.player2 # "" THEN state.player2 ELSE "Waiting..."),
      moveControls |-> state.status = "IN_PROGRESS",
      submitDisabled |->
        \/ state.status # "IN_PROGRESS"
        \/ h.move.isNull \/ h.move.n = 0
        \/ (IF state.moves % 2 = 0
            THEN state.player1 # h.username
            ELSE state.player2 # h.username)]

\* handleMakeMove called directly
NimMakeMove ==
  HookStep("handleMakeMove", <<>>, handleMakeMove(hook))

NimInputChange ==
  \E value \in
      { <<>>, <<"1">>, <<"2">>, <<"3">>, <<"0">>, <<"4">>, <<"1", "2">>, <<"2", ".", "9">>,
      <<"-", "1">>, <<"+", "2">>, <<" ", "3">>, <<"a">>, <<"3", "a">>, <<"0", "3">> } :
    HookStep("handleInputChange", [value |-> value],
             handleInputChange(hook, value))

\* a click on the Submit Move button of the page, possible when the button
\* is rendered and not disabled
NimSubmitMove ==
  /\ NimGamePage(hook).moveControls
  /\ ~NimGamePage(hook).submitDisabled
  /\ HookStep("submitMove", <<>>, handleMakeMove(hook))

\* the page is rendered again with a new game state
NimGameUpdate ==
  \E gameState \in NimGameStates :
    /\ gameState # hook.gameState
    /\ HookStep("gameState", [gameState |-> gameState],
                Did([hook EXCEPT !.gameState = gameState], <<>>))

NextNimGamePage ==
  \/ NimMakeMove
  \/ NimInputChange
  \/ NimSubmitMove
  \/ NimGameUpdate

SpecNimGamePage ==
  InitHook({useNimGamePage(gameState) : gameState \in NimGameStates})
    /\ [][NextNimGamePage]_vars

\* ---------------------------------------------------- hooks/useGamePage.ts
\* The page is routed at /games/:gameID.  null is the empty string for
\* joinedGameID and error, and NoGame for gameState.
NoGame == [gameID |-> "", version |-> 0]

ServiceCall(fn, args) == [fn |-> fn, args |-> args]

useGamePage ==
  [name |-> "useGamePage", phase |-> "initial", username |-> "alice", gameID |-> "g1",
   gameState |-> NoGame, joinedGameID |-> "", error |-> "",
   listeners |-> 0, pending |-> <<>>, calls |-> <<>>, emitted |-> <<>>, navigated |-> <<>>]

\* handleLeaveGame up to its await, or to its end when no game is recorded as joined
handleLeaveGame(h) ==
  IF h.joinedGameID # ""
  THEN Did([h EXCEPT !.calls = Append(@, ServiceCall("leaveGame", <<h.joinedGameID, h.username>>)),
                     !.pending = Append(@, [fn |-> "leaveGame", arg |-> h.joinedGameID])], <<>>)
  ELSE Did([h EXCEPT !.navigated = Append(@, "/games")], <<>>)

handleLeaveGameResume(h, id, ok) ==
  LET h1 == IF ok THEN [h EXCEPT !.emitted = Append(@, SocketEmit("leaveGame", id))]
            ELSE [h EXCEPT !.error = "Failed to leave game"]
  IN Did([h1 EXCEPT !.joinedGameID = "", !.navigated = Append(@, "/games")],
         IF ok THEN <<SocketEmit("leaveGame", id)>> ELSE <<>>)

\* handleJoinGame up to its await
handleJoinGame(h, id) ==
  [h EXCEPT !.calls = Append(@, ServiceCall("joinGame", <<id, h.username>>)),
            !.pending = Append(@, [fn |-> "joinGame", arg |-> id])]

handleJoinGameResume(h, id, ok, game) ==
  IF ok
  THEN Did([h EXCEPT !.gameState = game, !.emitted = Append(@, SocketEmit("joinGame", id))],
           <<SocketEmit("joinGame", id)>>)
  ELSE Did([h EXCEPT !.error = "Failed to join game"], <<>>)

handleGameUpdate(h, updatedState) == [h EXCEPT !.gameState = updatedState.gameState]

\* the effect: the game of the route is joined and both listeners registered
mountGamePage(h) ==
  LET h1 == IF h.gameID # "" THEN handleJoinGame(h, h.gameID) ELSE h
  IN Did([h1 EXCEPT !.phase = "mounted", !.listeners = @ + 1], <<>>)

cleanupGamePage(h) ==
  Did([h EXCEPT !.phase = "cleaned", !.listeners = IF @ > 0 THEN @ - 1 ELSE 0], <<>>)

GameMount ==
  /\ hook.phase = "initial"
  /\ HookStep("mount", <<>>, mountGamePage(hook))

GameUnmount ==
  /\ hook.phase = "mounted"
  /\ HookStep("cleanup", <<>>, cleanupGamePage(hook))

GameLeave ==
  /\ hook.phase = "mounted"
  /\ HookStep("handleLeaveGame", <<>>, handleLeaveGame(hook))

\* a pending joinGame or leaveGame request is answered
GameResponse ==
  /\ hook.phase # "initial"
  /\ \E i \in 1..Len(hook.pending), ok \in BOOLEAN :
       LET r == hook.pending[i]
           h == [hook EXCEPT !.pending = RemoveAt(@, i)]
       IN CASE r.fn = "joinGame" ->
                 HookStep("joinGame", [id |-> r.arg, ok |-> ok],
                          handleJoinGameResume(h, r.arg, ok, [gameID |-> r.arg, version |-> 1]))
            [] r.fn = "leaveGame" ->
                 HookStep("leaveGame", [id |-> r.arg, ok |-> ok],
                          handleLeaveGameResume(h, r.arg, ok))

\* the server emits 'gameUpdate'
GameUpdateEvent ==
  /\ hook.phase # "initial"
  /\ \E v \in {1, 2, 3} :
       LET u == [gameState |-> [gameID |-> hook.gameID, version |-> v]]
       IN HookStep("gameUpdate", u,
                   Did(IF hook.listeners > 0 THEN handleGameUpdate(hook, u) ELSE hook, <<>>))

NextGamePage ==
  \/ GameMount
  \/ GameUnmount
  \/ GameLeave
  \/ GameResponse
  \/ GameUpdateEvent

SpecGamePage == InitHook({useGamePage}) /\ [][NextGamePage]_vars

\* ------------------------------------------------ hooks/useAllGamesPage.ts
useAllGamesPage ==
  [name |-> "useAllGamesPage", phase |-> "initial",
   availableGames |-> <<>>, isModalOpen |-> FALSE, error |-> <<>>,
   pending |-> <<>>, calls |-> <<>>, navigated |-> <<>>]

\* fetchGames up to its await
fetchGames(h) ==
  [h EXCEPT !.calls = Append(@, ServiceCall("getGames", <<>>)),
            !.pending = Append(@, [fn |-> "getGames", arg |-> ""])]

fetchGamesResume(h, ok, games) ==
  IF ok THEN Did([h EXCEPT !.availableGames = games], <<>>)
  ELSE Did([h EXCEPT !.error = <<"Error fetching games: ", "request failed">>], <<>>)

\* handleCreateGame up to its first await
handleCreateGame(h, gameType) ==
  [h EXCEPT !.calls = Append(@, ServiceCall("createGame", <<gameType>>)),
            !.pending = Append(@, [fn |-> "createGame", arg |-> gameType])]

\* handleCreateGame after createGame: the list is fetched again, or the error is kept
handleCreateGameResume(h, ok) ==
  IF ok THEN Did(fetchGames(h), <<>>)
  ELSE Did([h EXCEPT !.error = <<"Error creating game: ", "request failed">>], <<>>)

handleToggleModal(h) == Did([h EXCEPT !.isModalOpen = ~h.isModalOpen], <<>>)

handleSelectGameType(h, gameType) == Did(handleCreateGame(h, gameType), <<>>)

mountAllGamesPage(h) == Did(fetchGames([h EXCEPT !.phase = "mounted"]), <<>>)

AllGamesMount ==
  /\ hook.phase = "initial"
  /\ HookStep("mount", <<>>, mountAllGamesPage(hook))

AllGamesToggleModal ==
  /\ hook.phase = "mounted"
  /\ HookStep("handleToggleModal", <<>>, handleToggleModal(hook))

AllGamesSelectGameType ==
  /\ hook.phase = "mounted"
  /\ Len(hook.pending) < 2
  /\ \E gameType \in {"Nim"} :
       HookStep("handleSelectGameType", [gameType |-> gameType],
                handleSelectGameType(hook, gameType))

\* a pending getGames or createGame request is answered
AllGamesResponse ==
  /\ hook.phase = "mounted"
  /\ \E i \in 1..Len(hook.pending), ok \in BOOLEAN :
       LET r == hook.pending[i]
           h == [hook EXCEPT !.pending = RemoveAt(@, i)]
       IN CASE r.fn = "getGames" ->
                 \E games \in IF ok THEN {<<>>, <<"g1">>, <<"g1", "g2">>} ELSE {<<>>} :
                   HookStep("getGames", [ok |-> ok, games |-> games],
                            fetchGamesResume(h, ok, games))
            [] r.fn = "createGame" ->
                 HookStep("createGame", [ok |-> ok, gameType |-> r.arg],
                          handleCreateGameResume(h, ok))

NextAllGamesPage ==
  \/ AllGamesMount
  \/ AllGamesToggleModal
  \/ AllGamesSelectGameType
  \/ AllGamesResponse

SpecAllGamesPage == InitHook({useAllGamesPage}) /\ [][NextAllGamesPage]_vars

\* --------------------------------------------- hooks/useProfileSettings.ts
\* The page is routed at /user/:username.  A password is the sequence of its
\* characters; null is the empty string for the two messages.  What a handler
\* calls (a userService function, navigate) is listed with what it emits.
MinPasswordLength == 6

\* a password of n characters c
Password(n, c) == [i \in 1..n |-> c]

useProfileSettings ==
  [name |-> "useProfileSettings", phase |-> "initial", username |-> "alice",
   userData |-> 0, newPassword |-> <<>>, confirmNewPassword |-> <<>>,
   loading |-> FALSE, editBioMode |-> FALSE, newBio |-> "",
   successMessage |-> "", errorMessage |-> "",
   showConfirmation |-> FALSE, pendingAction |-> FALSE, pending |-> <<>>]

\* the effect: fetchUserData up to its await
mountProfileSettings(h) ==
  IF h.username = "" THEN Did([h EXCEPT !.phase = "mounted"], <<>>)
  ELSE Did([h EXCEPT !.phase = "mounted", !.loading = TRUE,
                     !.pending = Append(@, [fn |-> "getUserByUsername"])],
           <<ServiceCall("getUserByUsername", <<h.username>>)>>)

fetchUserDataResume(h, ok, data) ==
  LET h1 == IF ok THEN [h EXCEPT !.userData = data]
            ELSE [h EXCEPT !.errorMessage = "Error fetching user profile", !.userData = 0]
  IN Did([h1 EXCEPT !.loading = FALSE], <<>>)

\* variant: the length of the password is not checked
validatePasswords_NoLength(h) ==
  IF h.newPassword = <<>> \/ h.confirmNewPassword = <<>>
  THEN [ok |-> FALSE, h |-> [h EXCEPT !.errorMessage = "Please fill in both password fields"]]
  ELSE IF h.newPassword # h.confirmNewPassword
  THEN [ok |-> FALSE, h |-> [h EXCEPT !.errorMessage = "Passwords do not match"]]
  ELSE [ok |-> TRUE, h |-> h]

validatePasswords(h) ==
  IF h.newPassword = <<>> \/ h.confirmNewPassword = <<>>
  THEN [ok |-> FALSE, h |-> [h EXCEPT !.errorMessage = "Please fill in both password fields"]]
  ELSE IF h.newPassword # h.confirmNewPassword
  THEN [ok |-> FALSE, h |-> [h EXCEPT !.errorMessage = "Passwords do not match"]]
  ELSE IF Len(h.newPassword) < MinPasswordLength
  THEN [ok |-> FALSE,
        h |-> [h EXCEPT !.errorMessage = "Password must be at least 6 characters long"]]
  ELSE [ok |-> TRUE, h |-> h]

\* handleResetPassword up to its await, or to its return
handleResetPassword(h) ==
  IF h.username = "" THEN Did(h, <<>>)
  ELSE LET v == validatePasswords([h EXCEPT !.errorMessage = "", !.successMessage = ""])
       IN IF ~v.ok THEN Did(v.h, <<>>)
          ELSE Did([v.h EXCEPT !.loading = TRUE,
                               !.pending = Append(@, [fn |-> "resetPassword"])],
                   <<ServiceCall("resetPassword", <<h.username, h.newPassword>>)>>)

handleResetPasswordResume(h, ok) ==
  LET h1 == IF ok
            THEN [h EXCEPT !.successMessage = "Password reset successfully",
                           !.newPassword = <<>>, !.confirmNewPassword = <<>>]
            ELSE [h EXCEPT !.errorMessage = "Error resetting password"]
  IN Did([h1 EXCEPT !.loading = FALSE], <<>>)

\* variant: the account is deleted at once
handleDeleteUser_Immediate(h) ==
  IF h.username = "" THEN Did(h, <<>>)
  ELSE Did([h EXCEPT !.showConfirmation = TRUE, !.pendingAction = TRUE, !.loading = TRUE,
                     !.pending = Append(@, [fn |-> "deleteUser"])],
           <<ServiceCall("deleteUser", <<h.username>>)>>)

handleDeleteUser(h) ==
  IF h.username = "" THEN Did(h, <<>>)
  ELSE Did([h EXCEPT !.showConfirmation = TRUE, !.pendingAction = TRUE], <<>>)

\* the stored pending action up to its await
runPendingAction(h) ==
  Did([h EXCEPT !.loading = TRUE, !.pending = Append(@, [fn |-> "deleteUser"])],
      <<ServiceCall("deleteUser", <<h.username>>)>>)

runPendingActionResume(h, ok) ==
  LET h1 == IF ok THEN [h EXCEPT !.successMessage = "Account deleted successfully"]
            ELSE [h EXCEPT !.errorMessage = "Error deleting account"]
  IN Did([h1 EXCEPT !.loading = FALSE, !.showConfirmation = FALSE],
         IF ok THEN <<ServiceCall("navigate", <<"/">>)>> ELSE <<>>)

ProfileMount ==
  /\ hook.phase = "initial"
  /\ HookStep("mount", <<>>, mountProfileSettings(hook))

\* the exposed setters of the two password fields
ProfileSetNewPassword ==
  /\ hook.phase = "mounted"
  /\ \E v \in {Password(5, "a"), Password(6, "a")} :
       HookStep("setNewPassword", [value |-> v],
                Did([hook EXCEPT !.newPassword = v], <<>>))

ProfileSetConfirmNewPassword ==
  /\ hook.phase = "mounted"
  /\ \E v \in {Password(5, "a"), Password(6, "a")} :
       HookStep("setConfirmNewPassword", [value |-> v],
                Did([hook EXCEPT !.confirmNewPassword = v], <<>>))

ProfileResetPassword ==
  /\ hook.phase = "mounted"
  /\ Len(hook.pending) < 2
  /\ HookStep("handleResetPassword", <<>>, handleResetPassword(hook))

ProfileDeleteUser ==
  /\ hook.phase = "mounted"
  /\ HookStep("handleDeleteUser", <<>>, handleDeleteUser(hook))

\* the confirmation modal runs the stored action
ProfileConfirm ==
  /\ hook.phase = "mounted"
  /\ hook.pendingAction
  /\ Len(hook.pending) < 2
  /\ HookStep("pendingAction", <<>>, runPendingAction(hook))

\* the confirmation modal is dismissed through the exposed setters
ProfileCancel ==
  /\ hook.phase = "mounted"
  /\ hook.showConfirmation
  /\ HookStep("cancel", <<>>,
              Did([hook EXCEPT !.showConfirmation = FALSE, !.pendingAction = FALSE], <<>>))

\* a pending userService request is answered
ProfileResponse ==
  /\ hook.phase = "mounted"
  /\ \E i \in 1..Len(hook.pending), ok \in BOOLEAN :
       LET r == hook.pending[i]
           h == [hook EXCEPT !.pending = RemoveAt(@, i)]
       IN CASE r.fn = "getUserByUsername" ->
                 HookStep("getUserByUsername", [ok |-> ok],
                          fetchUserDataResume(h, ok, 1))
            [] r.fn = "resetPassword" ->
                 HookStep("resetPassword", [ok |-> ok],
                          handleResetPasswordResume(h, ok))
            [] r.fn = "deleteUser" ->
                 HookStep("deleteUser", [ok |-> ok],
                          runPendingActionResume(h, ok))

NextProfileSettings ==
  \/ ProfileMount
  \/ ProfileSetNewPassword
  \/ ProfileSetConfirmNewPassword
  \/ ProfileResetPassword
  \/ ProfileDeleteUser
  \/ ProfileConfirm
  \/ ProfileCancel
  \/ ProfileResponse

SpecProfileSettings == InitHook({useProfileSettings}) /\ [][NextProfileSettings]_vars

\* -------------------------------------------------------- hooks/useAuth.ts
\* The names of the hook's handlers that another hook also has carry the
\* prefix auth.
useAuth(authType) ==
  [name |-> "useAuth", authType |-> authType,
   username |-> "", password |-> "", passwordConfirmation |-> "",
   showPassword |-> FALSE, err |-> "", pending |-> <<>>]

authHandleInputChange(h, value, field) ==
  IF field = "username" THEN Did([h EXCEPT !.username = value], <<>>)
  ELSE IF field = "password" THEN Did([h EXCEPT !.password = value], <<>>)
  ELSE IF field = "confirmPassword" THEN Did([h EXCEPT !.passwordConfirmation = value], <<>>)
  ELSE Did(h, <<>>)

\* variant: the confirmation is not compared with the password
validateInputs_NoMatch(h) ==
  IF h.authType = "login"
  THEN IF h.username = "" \/ h.password = ""
       THEN [ok |-> FALSE, h |-> [h EXCEPT !.err = "Please enter a username and password"]]
       ELSE [ok |-> TRUE, h |-> h]
  ELSE IF h.authType = "signup"
  THEN IF h.username = "" \/ h.password = "" \/ h.passwordConfirmation = ""
       THEN [ok |-> FALSE,
             h |-> [h EXCEPT !.err = "Please enter a username, password, and password confirmation"]]
       ELSE [ok |-> TRUE, h |-> h]
  ELSE [ok |-> TRUE, h |-> h]

validateInputs(h) ==
  IF h.authType = "login"
  THEN IF h.username = "" \/ h.password = ""
       THEN [ok |-> FALSE, h |-> [h EXCEPT !.err = "Please enter a username and password"]]
       ELSE [ok |-> TRUE, h |-> h]
  ELSE IF h.authType = "signup"
  THEN IF h.username = "" \/ h.password = "" \/ h.passwordConfirmation = ""
       THEN [ok |-> FALSE,
             h |-> [h EXCEPT !.err = "Please enter a username, password, and password confirmation"]]
       ELSE IF h.password # h.passwordConfirmation
       THEN [ok |-> FALSE, h |-> [h EXCEPT !.err = "Passwords do not match"]]
       ELSE [ok |-> TRUE, h |-> h]
  ELSE [ok |-> TRUE, h |-> h]

\* handleSubmit up to its await, or to its return
authHandleSubmit(h) ==
  LET v == validateInputs(h)
  IN IF ~v.ok THEN Did([v.h EXCEPT !.err = "Invalid inputs"], <<>>)
     ELSE IF h.authType = "login"
     THEN Did([v.h EXCEPT !.pending = Append(@, [fn |-> "loginUser", arg |-> h.username])],
              <<ServiceCall("loginUser", <<h.username, h.password>>)>>)
     ELSE IF h.authType = "signup"
     THEN Did([v.h EXCEPT !.pending = Append(@, [fn |-> "createUser", arg |-> h.username])],
              <<ServiceCall("createUser", <<h.username, h.password>>)>>)
     ELSE Did([v.h EXCEPT !.err = "Invalid authentication type"], <<>>)

authHandleSubmitResume(h, ok, user) ==
  IF ok THEN Did(h, <<ServiceCall("setUser", <<user>>), ServiceCall("navigate", <<"/home">>)>>)
  ELSE Did([h EXCEPT !.err = "Invalid username or password"], <<>>)

AuthInputChange ==
  \E field \in {"username", "password", "confirmPassword"} :
    \E value \in IF field = "username" THEN {"", "u"}
                 ELSE IF field = "password" THEN {"", "p"} ELSE {"p", "q"} :
      HookStep("handleInputChange", [field |-> field, value |-> value],
               authHandleInputChange(hook, value, field))

AuthSubmit ==
  /\ Len(hook.pending) < 2
  /\ HookStep("handleSubmit", <<>>, authHandleSubmit(hook))

\* a pending loginUser or createUser request is answered
AuthResponse ==
  \E i \in 1..Len(hook.pending), ok \in BOOLEAN :
    LET r == hook.pending[i]
        h == [hook EXCEPT !.pending = RemoveAt(@, i)]
    IN HookStep("authResponse", [fn |-> r.fn, ok |-> ok, user |-> r.arg],
                authHandleSubmitResume(h, ok, r.arg))

NextAuth ==
  \/ AuthInputChange
  \/ AuthSubmit
  \/ AuthResponse

SpecAuth == InitHook({useAuth("login"), useAuth("signup")}) /\ [][NextAuth]_vars

\* ------------------------------------------------- chat socket rooms
\* The connection handlers of the chat controller.  Each connection holds the
\* set of rooms it is in; joined is the history of its events: the ids it
\* emitted 'joinChat' for and has not emitted 'leaveChat' for since.
UndefinedId == [kind |-> "undefined", n |-> 0]

chatRooms ==
  [name |-> "chatRooms",
   rooms |-> [conn \in {"c1", "c2"} |-> {}],
   joined |-> [conn \in {"c1", "c2"} |-> {}]]

\* conn.on('joinChat')
joinChat(rooms, conn, chatID) ==
  [rooms EXCEPT ![conn] = @ \cup {chatID}]

\* variant: leaving is ignored
leaveChat_Never(rooms, conn, chatID) ==
  rooms

\* conn.on('leaveChat')
leaveChat(rooms, conn, chatID) ==
  IF chatID.kind \notin {"empty", "undefined"}
  THEN [rooms EXCEPT ![conn] = @ \ {chatID}]
  ELSE rooms

\* socket.to(room): the connections an emit to the room is delivered to
socketTo(rooms, room) == {conn \in DOMAIN rooms : room \in rooms[conn]}

ConnJoinChat ==
  \E conn \in DOMAIN hook.rooms, chatID \in {IdStr(1), IdStr(2), EmptyStr} :
    /\ hook' = [hook EXCEPT !.rooms = joinChat(hook.rooms, conn, chatID),
                            !.joined[conn] = @ \cup {chatID}]
    /\ last' = [op |-> "joinChat", in |-> [conn |-> conn, chatID |-> chatID],
                out |-> [emits |-> <<>>], pre |-> hook]
    /\ UNCHANGED <<chats, messages, steps>>

ConnLeaveChat ==
  \E conn \in DOMAIN hook.rooms, chatID \in {IdStr(1), IdStr(2), EmptyStr, UndefinedId} :
    /\ hook' = [hook EXCEPT !.rooms = leaveChat(hook.rooms, conn, chatID),
                            !.joined[conn] = @ \ {chatID}]
    /\ last' = [op |-> "leaveChat", in |-> [conn |-> conn, chatID |-> chatID],
                out |-> [emits |-> <<>>], pre |-> hook]
    /\ UNCHANGED <<chats, messages, steps>>

NextChatRooms ==
  \/ Complete
  \/ PostAddMessage
  \/ ConnJoinChat
  \/ ConnLeaveChat

\* the server starts with the chat of alice and bob created, nobody connected
InitChatRooms ==
  LET body == [participants |-> Arr(<<"alice", "bob">>), messages |-> Arr(<<>>)]
      created == createChatRoute(Db(<<>>, <<>>), body, [at |-> "none", idx |-> {}])
  IN /\ chats = created.db.chats
     /\ messages = created.db.messages
     /\ last = Idle
     /\ steps = 0
     /\ hook = chatRooms

SpecChatRooms == InitChatRooms /\ [][NextChatRooms]_vars

\* ------------------------------------------------------------ properties
FnNames(t) == [i \in 1..Len(t) |-> t[i].fn]

IsPrefix(a, b) == Len(a) <= Len(b) /\ \A i \in 1..Len(a) : a[i] = b[i]

Unchanged == chats = last.pre.chats /\ messages = last.pre.messages

\* C1: POST /chat/createChat whose participants field is missing, is not an
\* array or is an empty array answers 400 'Invalid chat creation request',
\* never calls saveChat and emits no chatUpdate event.
C1_InvalidCreateChatRejected ==
  LET p == last.in.body.participants
  IN (last.op = "createChatRoute" /\ (p.t = "undefined" \/ p.t # "array" \/ p.a = <<>>))
       => /\ last.out.status = 400
          /\ last.out.text = <<"Invalid chat creation request">>
          /\ "saveChat" \notin Range(FnNames(last.out.calls))
          /\ last.out.emitted = <<>>

C1_Witness ==
  /\ last.op = "createChatRoute"
  /\ last.in.body.participants = Arr(<<>>)
  /\ last.out.status = 400

\* C2: POST /chat/:chatId/addMessage whose msg or msgFrom is missing or empty
\* answers 400 'Invalid message request'; createMessage and addMessageToChat are
\* not called, no message is stored and no chat is changed.
C2_InvalidAddMessageRejected ==
  LET b == last.in.body
      absent(x) == x.t = "undefined" \/ (x.t = "string" /\ x.s = "")
  IN (last.op = "addMessageToChatRoute" /\ (absent(b.msg) \/ absent(b.msgFrom)))
       => /\ last.out.status = 400
          /\ last.out.text = <<"Invalid message request">>
          /\ Range(FnNames(last.out.calls)) \cap {"createMessage", "addMessageToChat"} = {}
          /\ Unchanged

C2_Witness ==
  /\ last.op = "addMessageToChatRoute"
  /\ last.in.body.msg = Str("hi")
  /\ last.in.body.msgFrom = Str("")
  /\ ChatExists(Db(chats, messages), last.in.chatId.n)
  /\ last.out.status = 400

\* C3: POST /chat/:chatId/addParticipant whose username is missing or empty
\* answers 400 'Invalid participant request'; addParticipantToChat and
\* populateDocument are not called.
C3_InvalidAddParticipantRejected ==
  LET u == last.in.body.username
  IN (last.op = "addParticipantToChatRoute" /\ (u.t = "undefined" \/ (u.t = "string" /\ u.s = "")))
       => /\ last.out.status = 400
          /\ last.out.text = <<"Invalid participant request">>
          /\ Range(FnNames(last.out.calls))
               \cap {"addParticipantToChat", "populateDocument"} = {}

C3_Witness ==
  /\ last.op = "addParticipantToChatRoute"
  /\ last.in.body.username = Undefined
  /\ last.in.chatId.kind = "hex"
  /\ ChatExists(Db(chats, messages), last.in.chatId.n)
  /\ last.out.status = 400

\* C4: a valid POST /chat/:chatId/addMessage runs createMessage,
\* addMessageToChat, populateDocument, emit chatUpdate 'newMessage', send 200 in
\* this order, each step only after the previous one succeeded; when
\* createMessage returns an error, addMessageToChat is not called and the
\* answer is 500 'Error adding message to chat: <error>'.
C4_AddMessageStepOrder ==
  LET t == last.out.trace
      n == Len(t)
      order == <<"createMessage", "addMessageToChat", "populateDocument", "emit", "send">>
  IN (last.op = "addMessageToChatRoute" /\ last.out.status # 400)
       => /\ \/ /\ IsPrefix(FnNames(t), order)
                /\ n = 5
                /\ t[4].arg.type = "newMessage"
                /\ last.out.status = 200
             \/ /\ IsPrefix(SubSeq(FnNames(t), 1, n - 1), order)
                /\ n \in 2..4
                /\ t[n].fn = "send"
                /\ t[n - 1].failed
                /\ last.out.status = 500
          /\ \A i \in 1..(n - 2) : ~t[i].failed
          /\ t[1].failed
               => /\ "addMessageToChat" \notin Range(FnNames(t))
                  /\ last.out.status = 500
                  /\ last.out.text = <<"Error adding message to chat: ">> \o t[1].error

C4_Witness ==
  /\ last.op = "addMessageToChatRoute"
  /\ last.out.status = 500
  /\ Len(last.out.trace) = 2
  /\ last.out.trace[1].fn = "createMessage"
  /\ last.out.trace[1].failed
  /\ ChatExists(Db(chats, messages), last.in.chatId.n)

RoutePrefix(op) ==
  CASE op = "createChatRoute" -> "Error creating a chat: "
    [] op = "addMessageToChatRoute" -> "Error adding message to chat: "
    [] op = "getChatRoute" -> "Error retrieving chat: "
    [] op = "addParticipantToChatRoute" -> "Error adding participant to chat: "

\* C5: in the routes createChat, addMessage, getChat and addParticipant, when a
\* service call or populateDocument fails the answer is 500 with the route's
\* prefix followed by the error message, no later step of the route is taken
\* and no chatUpdate event is emitted.
C5_FailureStopsRoute ==
  LET c == last.out.calls
  IN last.op \in {"createChatRoute", "addMessageToChatRoute", "getChatRoute",
                  "addParticipantToChatRoute"}
       => \A i \in 1..Len(c) :
            c[i].failed
              => /\ i = Len(c)
                 /\ last.out.trace = c \o <<Send(500)>>
                 /\ last.out.status = 500
                 /\ last.out.text = <<RoutePrefix(last.op)>> \o c[i].error
                 /\ last.out.emitted = <<>>

C5_Witness ==
  /\ last.op = "addParticipantToChatRoute"
  /\ Len(last.out.calls) = 2
  /\ ~last.out.calls[1].failed
  /\ last.out.calls[2].fn = "populateDocument"
  /\ last.out.calls[2].failed
  /\ last.out.status = 500

\* C6: GET /chat/getChatsByUser/:username calls getChatsByParticipants with
\* exactly [username]; when populateDocument fails for one of the retrieved
\* chats the answer is 500 'Error retrieving chat: Failed populating all
\* retrieved chats' with no list; otherwise it is 200 with one populated entry
\* per retrieved chat, in the same order.
C6_ChatsByUserAllOrNothing ==
  LET c == last.out.calls
      found == c[1].ret
      pop == SubSeq(c, 2, Len(c))
  IN last.op = "getChatsByUserRoute"
       => /\ c[1].fn = "getChatsByParticipants"
          /\ c[1].arg = <<last.in.username>>
          /\ Len(pop) = Len(found)
          /\ \A i \in 1..Len(pop) :
               pop[i].fn = "populateDocument" /\ pop[i].arg = IdStr(found[i]._id)
          /\ IF \E i \in 1..Len(pop) : pop[i].failed
             THEN /\ last.out.status = 500
                  /\ last.out.text = <<"Error retrieving chat: ",
                                       "Failed populating all retrieved chats">>
                  /\ last.out.body = NoBody
             ELSE /\ last.out.status = 200
                  /\ Len(last.out.body) = Len(found)
                  /\ \A i \in 1..Len(found) :
                       /\ ~last.out.body[i].isError
                       /\ last.out.body[i]._id = found[i]._id
                       /\ last.out.body[i] = pop[i].ret

C6_Witness ==
  /\ last.op = "getChatsByUserRoute"
  /\ Len(last.out.calls) = 3
  /\ ~last.out.calls[2].failed
  /\ last.out.calls[3].failed
  /\ last.out.status = 500

Known(u) == \E i \in 1..Len(UserModel) : UserModel[i].username = u

IdOf(u) == (CHOOSE x \in Range(UserModel) : x.username = u)._id

FirstUnknown(p) ==
  p[CHOOSE i \in 1..Len(p) : ~Known(p[i]) /\ \A j \in 1..(i - 1) : Known(p[j])]

\* C7 (as stated): saveChat with a participants list in which a username matches
\* no existing user returns an error whose message contains 'User not found'
\* and names that username, and creates no chat document.
C7_Original ==
  LET p == last.in.chatPayload.participants
      e == last.out.res.error
  IN (last.op = "saveChat" /\ \E i \in 1..Len(p) : ~Known(p[i]))
       => /\ last.out.res.isError
          /\ \E k \in 1..(Len(e) - 1) :
               e[k] = "User not found: " /\ e[k + 1] \in Range(p) /\ ~Known(e[k + 1])
          /\ chats = last.pre.chats

\* C7 (amended): saveChat with a participants list in which a username matches
\* no existing user returns an error object and creates no chat document; when
\* every message of the payload was saved and the user lookup itself did not
\* fail, the message is 'Error when saving chat: User not found: <u>' for the
\* first such username u of the list.
C7_UnknownUserNoChat ==
  LET p == last.in.chatPayload.participants
  IN (last.op = "saveChat" /\ \E i \in 1..Len(p) : ~Known(p[i]))
       => /\ last.out.res.isError
          /\ chats = last.pre.chats
          /\ last.in.f.at \notin {"saveMessage", "findOne"}
               => last.out.res.error
                    = <<"Error when saving chat: ", "User not found: ", FirstUnknown(p)>>

C7_Witness ==
  /\ last.op = "saveChat"
  /\ last.in.chatPayload.participants = <<"alice", "ghost">>
  /\ last.in.chatPayload.messages # <<>>
  /\ last.in.f.at = "none"
  /\ last.out.res.error = <<"Error when saving chat: ", "User not found: ", "ghost">>

\* C8 (as stated): addMessageToChat on an existing chat appends messageId as
\* the last element of that chat's messages and returns the updated chat; the
\* earlier messages, the participants and the other chats stay as they were; on
\* a chat id that does not exist it returns {error: 'Chat not found'} and
\* changes no chat.
C8_Original ==
  LET cid == last.in.chatId
      mid == last.in.messageId
  IN last.op = "addMessageToChat"
       => IF cid.kind = "hex" /\ cid.n \in 1..Len(last.pre.chats)
          THEN /\ mid.kind = "hex"
               /\ chats = [last.pre.chats EXCEPT ![cid.n].messages = Append(@, mid.n)]
               /\ messages = last.pre.messages
               /\ ~last.out.res.isError
               /\ last.out.res._id = cid.n
               /\ last.out.res.messages = chats[cid.n].messages
               /\ last.out.res.participants = chats[cid.n].participants
          ELSE /\ last.out.res.isError
               /\ last.out.res.error = <<"Chat not found">>
               /\ Unchanged

\* C8 (amended): when chatId and messageId are well-formed ObjectId strings and
\* the update does not fail, addMessageToChat behaves as stated; otherwise it
\* returns an error 'Error when adding message to chat: ...' and changes no chat.
C8_AppendMessage ==
  LET cid == last.in.chatId
      mid == last.in.messageId
  IN last.op = "addMessageToChat"
       => IF cid.kind = "hex" /\ mid.kind = "hex" /\ last.in.f.at = "none"
          THEN IF cid.n \in 1..Len(last.pre.chats)
               THEN /\ chats = [last.pre.chats EXCEPT ![cid.n].messages = Append(@, mid.n)]
                    /\ messages = last.pre.messages
                    /\ ~last.out.res.isError
                    /\ last.out.res._id = cid.n
                    /\ last.out.res.messages = chats[cid.n].messages
                    /\ last.out.res.participants = chats[cid.n].participants
               ELSE /\ last.out.res.isError
                    /\ last.out.res.error = <<"Chat not found">>
                    /\ Unchanged
          ELSE /\ last.out.res.isError
               /\ Len(last.out.res.error) = 2
               /\ last.out.res.error[1] = "Error when adding message to chat: "
               /\ Unchanged

C8_Witness ==
  /\ last.op = "addMessageToChat"
  /\ ~last.out.res.isError
  /\ Len(last.pre.chats) = 2
  /\ last.pre.chats[last.in.chatId.n].messages = <<MessageId(1)>>
  /\ chats[last.in.chatId.n].messages = <<MessageId(1), MessageId(2)>>

\* C9 (as stated): addParticipantToChat returns {error: 'User not found'} when
\* no user has that username and {error: 'Chat not found or user already a
\* participant'} when the chat does not exist or the user is already one of its
\* participants, in both cases changing no chat; the user's id is appended to
\* the chat's participants only when the user exists, the chat exists and the
\* user is not yet a participant.
C9_Original ==
  LET cid == last.in.chatId
      u == last.in.username
      exists == cid.kind = "hex" /\ cid.n \in 1..Len(last.pre.chats)
      already == exists /\ IdOf(u) \in Range(last.pre.chats[cid.n].participants)
  IN last.op = "addParticipantToChat"
       => /\ ~Known(u)
               => /\ last.out.res.isError
                  /\ last.out.res.error = <<"User not found">>
                  /\ Unchanged
          /\ (Known(u) /\ (~exists \/ already))
               => /\ last.out.res.isError
                  /\ last.out.res.error = <<"Chat not found or user already a participant">>
                  /\ Unchanged
          /\ chats # last.pre.chats
               => /\ Known(u) /\ exists /\ ~already
                  /\ chats = [last.pre.chats EXCEPT ![cid.n].participants = Append(@, IdOf(u))]

\* C9 (amended): as stated when chatId is a well-formed ObjectId string and no
\* database call fails; when the user lookup fails, or the user exists and
\* chatId is malformed or the update fails, it returns an error 'Error when
\* adding participant to chat: ...'.  In every error case no chat is modified,
\* and the user's id is appended only when the user exists, the chat exists and
\* the user is not yet a participant.
C9_AddParticipantCases ==
  LET cid == last.in.chatId
      u == last.in.username
      exists == cid.kind = "hex" /\ cid.n \in 1..Len(last.pre.chats)
      already == exists /\ IdOf(u) \in Range(last.pre.chats[cid.n].participants)
      lookupOk == last.in.f.at # "findOne"
      updateOk == cid.kind = "hex" /\ last.in.f.at # "addParticipantToChat"
  IN last.op = "addParticipantToChat"
       => /\ (lookupOk /\ ~Known(u))
               => /\ last.out.res.isError
                  /\ last.out.res.error = <<"User not found">>
                  /\ Unchanged
          /\ (lookupOk /\ Known(u) /\ updateOk /\ (~exists \/ already))
               => /\ last.out.res.isError
                  /\ last.out.res.error = <<"Chat not found or user already a participant">>
                  /\ Unchanged
          /\ (~lookupOk \/ (Known(u) /\ ~updateOk))
               => /\ last.out.res.isError
                  /\ Len(last.out.res.error) = 2
                  /\ last.out.res.error[1] = "Error when adding participant to chat: "
                  /\ Unchanged
          /\ chats # last.pre.chats
               => /\ Known(u) /\ exists /\ ~already
                  /\ chats = [last.pre.chats EXCEPT ![cid.n].participants = Append(@, IdOf(u))]

C9_Witness ==
  /\ last.op = "addParticipantToChat"
  /\ last.in.f.at = "none"
  /\ last.in.username = "bob"
  /\ last.in.chatId.kind = "hex"
  /\ last.in.chatId.n \in 1..Len(last.pre.chats)
  /\ IdOf("bob") \in Range(last.pre.chats[last.in.chatId.n].participants)
  /\ last.out.res.error = <<"Chat not found or user already a participant">>

IncludesAll(chat, p) ==
  \A i \in 1..Len(p) : Known(p[i]) /\ IdOf(p[i]) \in Range(chat.participants)

\* C10 (as stated): getChatsByParticipants(p) returns exactly the stored chats
\* whose participants include every user named in p, and modifies no chat.
C10_Original ==
  last.op = "getChatsByParticipants"
    => /\ last.out.res = SelectSeq(last.pre.chats, LAMBDA c : IncludesAll(c, last.in.p))
       /\ Unchanged

\* C10 (amended): for a non-empty p, when no database call fails,
\* getChatsByParticipants(p) returns exactly the stored chats whose
\* participants include every user named in p; for an empty p, and when a
\* database call fails, it returns the empty array.  No chat is modified.
C10_ChatsOfParticipants ==
  last.op = "getChatsByParticipants"
    => /\ IF last.in.p # <<>> /\ last.in.f.at = "none"
          THEN last.out.res = SelectSeq(last.pre.chats, LAMBDA c : IncludesAll(c, last.in.p))
          ELSE last.out.res = <<>>
       /\ Unchanged

C10_Witness ==
  /\ last.op = "getChatsByParticipants"
  /\ last.in.p = <<"alice">>
  /\ Len(last.pre.chats) = 2
  /\ Len(last.out.res) = 1
  /\ Range(last.out.res[1].participants) = {IdOf("alice"), IdOf("bob")}

\* C11: getChatsByParticipants always resolves to an array of stored chats,
\* never to an error object; the array is empty when no chat matches, when
\* the query yields null, when the database query fails, and when any
\* username in the argument matches no existing user.
C11_AlwaysAnArray ==
  last.op = "getChatsByParticipants"
    => /\ \A i \in 1..Len(last.out.res) : last.out.res[i] \in Range(last.pre.chats)
       /\ ( \/ last.in.f.at \in {"find", "findNull"}
            \/ \E i \in 1..Len(last.in.p) : ~Known(last.in.p[i])
            \/ ~\E c \in Range(last.pre.chats) : IncludesAll(c, last.in.p) )
          => last.out.res = <<>>

C11_Witness ==
  /\ last.op = "getChatsByParticipants"
  /\ last.in.p = <<"alice", "ghost">>
  /\ last.in.f.at = "none"
  /\ \E c \in Range(last.pre.chats) : IdOf("alice") \in Range(c.participants)
  /\ last.out.res = <<>>

UserIds == {UserModel[i]._id : i \in 1..Len(UserModel)}

\* C12: every stored chat, created through POST /chat/createChat and
\* possibly extended through POST /chat/:chatId/addParticipant, has a
\* non-empty participants list, and every id in it is the id of an existing user.
C12_ParticipantsExist ==
  \A n \in 1..Len(chats) :
    /\ chats[n].participants # <<>>
    /\ \A i \in 1..Len(chats[n].participants) : chats[n].participants[i] \in UserIds

C12_Witness ==
  /\ last.op = "addParticipantToChatRoute"
  /\ last.out.status = 200
  /\ last.in.chatId.n \in 1..Len(chats)
  /\ Len(chats[last.in.chatId.n].participants) = Len(last.pre.chats[last.in.chatId.n].participants) + 1
  /\ Len(chats[last.in.chatId.n].participants) >= 2

\* C13: while mounted the direct-message hook has exactly one 'chatUpdate'
\* handler on the socket and after the cleanup none; a 'chatUpdate' event
\* that arrives after the cleanup changes neither chats nor selectedChat;
\* the cleanup emits 'leaveChat' for the selected chat, if there is one.
C13_OneChatUpdateHandler ==
  /\ hook.phase = "mounted" => hook.listeners = 1
  /\ hook.phase = "cleaned" => hook.listeners = 0
  /\ (last.op = "chatUpdate" /\ last.pre.phase = "cleaned")
       => /\ hook.chats = last.pre.chats
          /\ hook.selectedChat = last.pre.selectedChat
  /\ (last.op = "cleanup" /\ last.pre.selectedChat # NoChat)
       => last.out.emits = <<SocketEmit("leaveChat", last.pre.selectedChat._id)>>

C13_Witness ==
  /\ last.op = "chatUpdate"
  /\ last.in.type = "newMessage"
  /\ last.pre.phase = "cleaned"
  /\ hook.selectedChat # NoChat
  /\ last.in.chat._id = hook.selectedChat._id
  /\ last.in.chat # hook.selectedChat

C15_LeaveGameLeaves ==
  last.op = "handleLeaveGame"
    => /\ SocketEmit("joinGame", hook.gameID) \in Range(last.pre.emitted)
            => hook.calls = Append(last.pre.calls,
                                   ServiceCall("leaveGame", <<hook.gameID, hook.username>>))
       /\ hook.pending = last.pre.pending
            => hook.navigated = Append(last.pre.navigated, "/games")

\* C16: a call of handleSelectGameType with the modal open calls createGame
\* with the selected game type and closes the modal; when createGame has
\* succeeded the games list is fetched again.
C16_SelectCreatesAndCloses ==
  /\ (last.op = "handleSelectGameType" /\ last.pre.isModalOpen)
       => /\ hook.calls = Append(last.pre.calls, ServiceCall("createGame", <<last.in.gameType>>))
          /\ ~hook.isModalOpen
  /\ (last.op = "createGame" /\ last.in.ok)
       => hook.calls = Append(last.pre.calls, ServiceCall("getGames", <<>>))

CallsOf(fn) == {i \in 1..Len(last.out.emits) : last.out.emits[i].fn = fn}

\* C17: handleDeleteUser sets showConfirmation and stores a pending action
\* without calling deleteUser; deleteUser is called only by a run of the
\* stored pending action; when that action finishes, showConfirmation and
\* loading are both false, and it has navigated to '/' exactly when the
\* deletion succeeded.
C17_DeleteNeedsConfirmation ==
  /\ last.op = "handleDeleteUser"
       => hook.showConfirmation /\ hook.pendingAction /\ last.out.emits = <<>>
  /\ (last.op # "none" /\ CallsOf("deleteUser") # {})
       => last.op = "pendingAction" /\ last.pre.pendingAction
  /\ last.op = "deleteUser"
       => /\ ~hook.showConfirmation
          /\ ~hook.loading
          /\ last.out.emits = IF last.in.ok THEN <<ServiceCall("navigate", <<"/">>)>> ELSE <<>>

C17_Witness ==
  /\ last.op = "deleteUser"
  /\ ~last.in.ok
  /\ last.pre.showConfirmation
  /\ last.pre.loading
  /\ hook.errorMessage = "Error deleting account"

FirstFailedCheck(h) ==
  IF h.newPassword = <<>> \/ h.confirmNewPassword = <<>> THEN "Please fill in both password fields"
  ELSE IF h.newPassword # h.confirmNewPassword THEN "Passwords do not match"
  ELSE IF Len(h.newPassword) < 6 THEN "Password must be at least 6 characters long"
  ELSE ""

\* C18: handleResetPassword calls resetPassword only when both password
\* fields are non-empty, equal and at least 6 characters long; otherwise it
\* makes no request, sets errorMessage to the message of the first failed
\* check and leaves the password fields unchanged.  A successful reset clears
\* both password fields and sets successMessage.
C18_ResetPasswordValidated ==
  /\ last.op = "handleResetPassword"
       => IF FirstFailedCheck(last.pre) = ""
          THEN last.out.emits = <<ServiceCall("resetPassword", <<last.pre.username, last.pre.newPassword>>)>>
          ELSE /\ last.out.emits = <<>>
               /\ hook.errorMessage = FirstFailedCheck(last.pre)
               /\ hook.newPassword = last.pre.newPassword
               /\ hook.confirmNewPassword = last.pre.confirmNewPassword
  /\ (last.op = "resetPassword" /\ last.in.ok)
       => /\ hook.newPassword = <<>>
          /\ hook.confirmNewPassword = <<>>
          /\ hook.successMessage = "Password reset successfully"

C18_Witness ==
  /\ last.op = "handleResetPassword"
  /\ last.pre.newPassword = Password(5, "a")
  /\ last.pre.confirmNewPassword = Password(5, "a")
  /\ hook.errorMessage = "Password must be at least 6 characters long"
  /\ last.out.emits = <<>>

\* the message validateInputs chooses for a hook state, "" when it accepts it
RejectionOf(h) ==
  IF h.authType = "login"
  THEN IF h.username = "" \/ h.password = "" THEN "Please enter a username and password" ELSE ""
  ELSE IF h.username = "" \/ h.password = "" \/ h.passwordConfirmation = ""
  THEN "Please enter a username, password, and password confirmation"
  ELSE IF h.password # h.passwordConfirmation THEN "Passwords do not match"
  ELSE ""

\* C19: handleSubmit calls loginUser or createUser only when the required
\* fields are filled and, for signup, the password equals its confirmation;
\* setUser and the navigation to '/home' happen only after that call has
\* succeeded; a failed call sets err to 'Invalid username or password' and
\* neither sets the user nor navigates.
C19_SubmitValidated ==
  /\ last.op = "handleSubmit"
       => last.out.emits =
            IF RejectionOf(last.pre) # "" THEN <<>>
            ELSE <<ServiceCall(IF last.pre.authType = "login" THEN "loginUser" ELSE "createUser",
                               <<last.pre.username, last.pre.password>>)>>
  /\ (last.op # "none" /\ (CallsOf("setUser") # {} \/ CallsOf("navigate") # {}))
       => last.op = "authResponse" /\ last.in.ok
  /\ (last.op = "authResponse" /\ last.in.ok)
       => last.out.emits = <<ServiceCall("setUser", <<last.in.user>>), ServiceCall("navigate", <<"/home">>)>>
  /\ (last.op = "authResponse" /\ ~last.in.ok)
       => hook.err = "Invalid username or password" /\ last.out.emits = <<>>

C19_Witness ==
  /\ last.op = "handleSubmit"
  /\ last.pre.authType = "signup"
  /\ last.pre.username = "u"
  /\ last.pre.password = "p"
  /\ last.pre.passwordConfirmation = "q"
  /\ last.out.emits = <<>>

C21_RoomDelivery ==
  /\ last.op = "addMessageToChatRoute" =>
       \A i \in DOMAIN last.out.trace :
         LET e == last.out.trace[i]
         IN (e.fn = "emit" /\ e.arg.type = "newMessage") =>
              socketTo(hook.rooms, e.arg.room)
                = {conn \in DOMAIN hook.joined : e.arg.room \in hook.joined[conn]}
  /\ (last.op = "leaveChat" /\ last.in.chatID = UndefinedId) =>
       hook.rooms = last.pre.rooms
  /\ last.op \in {"joinChat", "leaveChat"} =>
       \A conn \in DOMAIN hook.rooms, room \in {IdStr(1), IdStr(2), EmptyStr, UndefinedId} :
         (conn # last.in.conn \/ room # last.in.chatID) =>
           (room \in hook.rooms[conn] <=> room \in last.pre.rooms[conn])

\* a message was emitted to a room that one connection is in, while the other
\* connection has left that room and is in another one
C21_Witness ==
  /\ last.op = "addMessageToChatRoute"
  /\ \E i \in DOMAIN last.out.trace :
       LET e == last.out.trace[i]
       IN /\ e.fn = "emit"
          /\ e.arg.type = "newMessage"
          /\ socketTo(hook.rooms, e.arg.room) = {"c1"}
          /\ hook.rooms["c2"] = {IdStr(2)}

\* C22: on the Nim game page the move controls are rendered only while the
\* status is IN_PROGRESS; the Submit Move button is enabled only when a move
\* is set and the user is the player to move (player1 after an even number
\* of moves, player2 after an odd number); the player displayed as the one
\* to move is that player; so a move submitted through the button is a move
\* of the player to move in a game in progress.
C22_ControlsAndTurn ==
  LET view == NimGamePage(hook)
      state == hook.gameState
      toMove == IF state.moves % 2 = 0 THEN state.player1 ELSE state.player2
      preState == last.pre.gameState
      preToMove == IF preState.moves % 2 = 0 THEN preState.player1 ELSE preState.player2
  IN /\ view.moveControls => state.status = "IN_PROGRESS"
     /\ (view.moveControls /\ ~view.submitDisabled) =>
          /\ ~hook.move.isNull
          /\ hook.username = toMove
     /\ toMove # "" => view.currentPlayerToMove = toMove
     /\ last.op = "submitMove" =>
          /\ preState.status = "IN_PROGRESS"
          /\ ~last.pre.move.isNull
          /\ last.pre.username = preToMove
          /\ last.out.emits[1].move.playerID = preToMove

\* the button was pressed by player2 after an odd number of moves
C22_Witness ==
  /\ last.op = "submitMove"
  /\ last.pre.gameState.moves % 2 = 1
  /\ last.pre.gameState.player2 = hook.username
  /\ last.pre.gameState.player1 # hook.username

\* C23: the chats list of the direct-message hook never holds two entries
\* with the same _id; a 'created' event for an id in the list leaves the list
\* unchanged and otherwise appends the chat at the end; a 'newMessage' event
\* replaces in place the entry with the same id, keeps the length and order
\* of the list, and replaces selectedChat only when the selected chat's id
\* is the updated chat's id.
C23_ChatsListUpdates ==
  /\ \A i, j \in 1..Len(hook.chats) : hook.chats[i]._id = hook.chats[j]._id => i = j
  /\ (last.op = "chatUpdate" /\ last.pre.listeners = 1) =>
       LET u == last.in
           prev == last.pre.chats
           known == \E i \in 1..Len(prev) : prev[i]._id = u.chat._id
       IN /\ (u.type = "created" /\ known) => hook.chats = prev
          /\ (u.type = "created" /\ ~known) => hook.chats = Append(prev, u.chat)
          /\ u.type = "newMessage" =>
               /\ Len(hook.chats) = Len(prev)
               /\ \A i \in 1..Len(prev) :
                    /\ hook.chats[i]._id = prev[i]._id
                    /\ hook.chats[i] = IF prev[i]._id = u.chat._id THEN u.chat ELSE prev[i]
               /\ hook.selectedChat # last.pre.selectedChat =>
                    /\ last.pre.selectedChat # NoChat
                    /\ last.pre.selectedChat._id = u.chat._id
                    /\ hook.selectedChat = u.chat

\* a 'created' event arrived for a chat that is in the list with other content
C23_Witness ==
  /\ last.op = "chatUpdate"
  /\ last.pre.listeners = 1
  /\ last.in.type = "created"
  /\ \E i \in 1..Len(last.pre.chats) :
       /\ last.pre.chats[i]._id = last.in.chat._id
       /\ last.pre.chats[i] # last.in.chat
  /\ Len(hook.chats) = 2

\* C24 (as stated): when POST /chat/:chatId/addMessage answers 500 the stored
\* state is the state before the request: no new message document exists and
\* the chat's messages list is unchanged.
C24_Original ==
  (last.op = "addMessageToChatRoute" /\ last.out.status = 500) => Unchanged

\* C24 (amended): when POST /chat/:chatId/addMessage answers 500 because
\* createMessage failed, the stored state is the state before the request;
\* when a later step failed, the message document created by the request
\* remains stored; every chat's messages list is unchanged if addMessageToChat
\* failed, and the chat's list holds the new message's id as its last element
\* if populateDocument failed.
C24_FailureKeepsCreatedMessage ==
  (last.op = "addMessageToChatRoute" /\ last.out.status = 500) =>
    LET c == last.out.calls
        failedFn == c[Len(c)].fn
        n == last.in.chatId.n
    IN /\ failedFn = "createMessage" => Unchanged
       /\ failedFn # "createMessage" =>
            messages = Append(last.pre.messages, c[1].arg)
       /\ failedFn = "addMessageToChat" => chats = last.pre.chats
       /\ failedFn = "populateDocument" =>
            /\ Len(chats) = Len(last.pre.chats)
            /\ n \in 1..Len(chats)
            /\ \A k \in 1..Len(chats) :
                 chats[k] = IF k = n
                            THEN [last.pre.chats[k] EXCEPT
                                    !.messages = Append(@, c[1].ret._id)]
                            ELSE last.pre.chats[k]

\* the request failed in addMessageToChat after its message was created
C24_Witness ==
  /\ last.op = "addMessageToChatRoute"
  /\ last.out.status = 500
  /\ last.out.calls[Len(last.out.calls)].fn = "addMessageToChat"
  /\ Len(messages) = Len(last.pre.messages) + 1
  /\ chats = last.pre.chats

\* C25 (as stated): when saveChat returns an error object nothing was
\* persisted by the call, neither a chat document nor a message document of
\* the payload.
C25_Original ==
  (last.op = "saveChat" /\ last.out.res.isError) => Unchanged

\* C25 (amended): when saveChat returns an error object no chat document was
\* saved by the call; the messages of the payload whose save succeeded remain
\* saved, so nothing was persisted only if the payload had no message or the
\* save of every message failed.
C25_ErrorSavesNoChat ==
  (last.op = "saveChat" /\ last.out.res.isError) =>
    LET m == last.in.chatPayload.messages
        failing == IF last.in.f.at = "saveMessage" THEN last.in.f.idx ELSE {}
        savedCount == Cardinality({i \in 1..Len(m) : i \notin failing})
    IN /\ chats = last.pre.chats
       /\ IsPrefix(last.pre.messages, messages)
       /\ Len(messages) = Len(last.pre.messages) + savedCount
       /\ \A k \in (Len(last.pre.messages) + 1)..Len(messages) :
            \E i \in 1..Len(m) : i \notin failing /\ messages[k] = m[i]

\* saveChat returned an error after it had saved a message of the payload
C25_Witness ==
  /\ last.op = "saveChat"
  /\ last.out.res.isError
  /\ Len(messages) = Len(last.pre.messages) + 1
  /\ chats = last.pre.chats

\* no getChatById request of the hook awaits its response
NoSelectPending == \A i \in 1..Len(hook.pending) : hook.pending[i].fn # "getChatById"

\* C26 (as stated): once every getChatById request started by handleChatSelect
\* has resolved, selectedChat is the chat of the most recent handleChatSelect
\* call, whatever the order of the responses.
C26_Original ==
  (last.op = "getChatById" /\ last.in.ok /\ hook.error = <<>> /\ NoSelectPending)
    => hook.selectedChat._id = hook.mostRecentSelect

\* C26 (amended): every resolved getChatById response replaces selectedChat by
\* its chat and emits 'joinChat' for the id of its call, whatever was selected
\* or requested since, and a failed one leaves selectedChat as it was; so once
\* every request has resolved, selectedChat is the chat of the call whose
\* response arrived last.
C26_LastResponseWins ==
  last.op = "getChatById" =>
    IF last.in.ok
    THEN /\ hook.selectedChat = ClientChat(last.in.chatID, last.in.n)
         /\ last.out.emits = <<SocketEmit("joinChat", last.in.chatID)>>
    ELSE /\ hook.selectedChat = last.pre.selectedChat
         /\ last.out.emits = <<>>

\* two calls, answered in the opposite order: the chat of the earlier call
\* is selected although every request has resolved
C26_Witness ==
  /\ last.op = "getChatById"
  /\ last.in.ok
  /\ hook.error = <<>>
  /\ NoSelectPending
  /\ hook.mostRecentSelect # 0
  /\ hook.selectedChat._id = last.in.chatID
  /\ last.in.chatID # hook.mostRecentSelect
  /\ last.pre.selectedChat._id = hook.mostRecentSelect

====
